---- MODULE Spec2Model ----
(***************************************************************************)
(* Trend gate and alert dispatcher of the heatmap core                     *)
(* (src/flows/actionable_alerts.py).                                       *)
(*                                                                         *)
(* Units.  Time is counted in whole hours.  velocity_z is kept in tenths   *)
(* (2.5 is 25), spread in thirds (2/3 is 2), heat in whole units.  The     *)
(* comparison heat < last_heat * 1.3 is done as heat*10 < last_heat*13.    *)
(*                                                                         *)
(* Database.  Every flow runs its statements inside engine.begin(): the    *)
(* statements of one run act on the committed tables plus the run's own    *)
(* pending writes (READ COMMITTED), a row written by a pending transaction *)
(* is locked against writers of other transactions until commit or         *)
(* rollback, and an exception leaving the block rolls the pending writes   *)
(* back.                                                                   *)
(***************************************************************************)
EXTENDS Integers, Sequences, FiniteSets, TLC

VARIABLES
    now,            \* the clock, in hours
    cycle,          \* daily_pipeline: position in the scripted cycles
    slack_url,      \* SLACK_WEBHOOK_URL is configured (non-empty)
    scores,         \* scores table: latest row per entity, or NoScore
    trade_min,      \* MIN(first_seen_ts) of trade_mentions per entity, or NULL
    trend_state,    \* committed trend_state table: row per entity, or NoRow
    alerts,         \* committed alerts table, in id order
    pc,             \* position of each run of run_actionable_alerts
    rows,           \* find_eligible_alerts: rows still to evaluate
    to_alert,       \* find_eligible_alerts: to_alert
    filtered,       \* _apply_debounce_and_suppression: out
    batch,          \* post_alerts: rows still to dispatch
    sent,           \* post_alerts: sent
    pushed,         \* the alerts of this run the delivery channel accepted
    failed,         \* the alerts of this run whose delivery failed
    tx_state,       \* pending trend_state writes of the run's transaction
    tx_alerts       \* pending alerts inserts of the run's transaction

\* TokenBucket (src/libs/rate.py)
VARIABLES
    tb_up,          \* the shared store answers
    tb_key,         \* the hash stored under the bucket's key, or NoKey
    tb_mem,         \* _mem_tokens and _mem_ts of each worker's bucket
    tb_pc,          \* position of each worker inside acquire
    tb_now,         \* acquire: now, as read before the script call
    tb_need,        \* acquire: tokens
    tb_ret,         \* what the worker's last acquire returned, and from where
    tb_granted,     \* tokens granted so far by the shared store
    tb_mgranted     \* tokens granted so far by each in-process bucket

tbvars == <<tb_up, tb_key, tb_mem, tb_pc, tb_now, tb_need, tb_ret, tb_granted,
            tb_mgranted>>

\* Source health (src/libs/health.py)
VARIABLES
    health,         \* source_health table: row per source, or NoHealth
    h_last          \* the last call of a health function and its outcome

hvars == <<health, h_last>>

\* Ingestion workers (src/flows/*_ingest.py)
VARIABLES
    run,            \* the worker run in progress: its position and counts
    buckets,        \* the store's token-bucket hash of each worker's key
    runs            \* the number of worker runs started

ivars == <<run, buckets, runs>>

\* Scoring passes (src/flows/scoring_job.py, mvp_scoring.py, rescore_tiktok.py)
VARIABLES
    signals,        \* per entity: the sources with signals in the store
    score_rows,     \* the committed rows of the scores table
    passes,         \* per kind of pass: its position, now and open transaction
    started         \* the number of passes and score_entity calls begun

svars == <<signals, score_rows, passes, started>>

\* The state of the libraries, which the alert flow does not touch.
\* Writers of the signals and entities tables (src/libs/db.py)
VARIABLES
    signal_rows,    \* the committed rows of the signals table
    entity_rows,    \* per name: the committed row of the entities table
    conn,           \* per connection: its open transaction's pending rows
    db_last,        \* per connection: its last statement and what it gave
    db_seq,         \* the last value of the sequence of entities.id
    db_ops          \* the number of transactions and statements begun

dvars == <<signal_rows, entity_rows, conn, db_last, db_seq, db_ops>>

\* Callers of rate_limiter (src/libs/rate.py)
VARIABLES
    rl_calls,       \* per source: the calls admitted since time last passed
    rl_ret          \* per source: what the last call gave

rvars == <<rl_calls, rl_ret>>

libvars == <<tbvars, hvars, ivars, svars, dvars, rvars>>

alertvars == <<cycle, slack_url, scores, trade_min, trend_state, alerts, pc,
               rows, to_alert, filtered, batch, sent, pushed, failed,
               tx_state, tx_alerts>>

vars == <<now, cycle, slack_url, scores, trade_min, trend_state, alerts, pc, rows,
          to_alert, filtered, batch, sent, pushed, failed, tx_state,
          tx_alerts, libvars>>

dbvars == <<scores, trade_min, trend_state, alerts>>
runvars == <<pc, rows, to_alert, filtered, batch, sent, pushed, failed,
             tx_state, tx_alerts>>

---------------------------------------------------------------------------
(* Bounds and input domains *)

MaxTick == 4
MaxConcTick == 2
MaxBatchTick == 1
MaxFairClock == 18

Entities == {"e1", "e2"}
Procs == {"A", "B"}
LimitVals == {1, 5}
\* What a scoring pass may write: velocity_z (tenths), spread (thirds), heat.
\* -1 is a NULL column.
ScoreInputs == {<<-1, 2, 10>>, <<25, 1, 10>>,
                <<25, 2, 10>>, <<25, 2, 11>>, <<25, 2, 14>>}
BatchInputs == {<<25, 2, 10>>, <<25, 2, 14>>}
Tracked == {"e1"}
Solo == {"A"}
\* The scripted polls of one entity: velocity_z 1.0, 2.0, 2.6 and 2.6 again.
E2EVel == <<10, 20, 26, 26>>
E2ESpread == {2, 3}
E2EHeat == {10, 14}

(* Program constants *)
NULL == -1
VEL_GATE == 25
SPREAD_GATE == 2
PERSIST_POLLS == 2
DEBOUNCE_HOURS == 6
REBOOST_FACTOR == 13
TRADE_SUPPRESS_AFTER_HOURS == 24
SCORE_WINDOW_HOURS == 2

NoScore == [ts |-> NULL, velocity_z |-> NULL, spread |-> NULL, heat |-> NULL]
NoRow == [last_gate_pass_ts |-> NULL, consecutive_passes |-> NULL,
          last_alert_ts |-> NULL, last_alert_heat |-> NULL,
          prior_peak_heat |-> NULL]

---------------------------------------------------------------------------
(* The clock: the scheduler's ticks are Gap(k) hours apart, and a run of the
   alert flow takes less than a tick. *)

Gap(k) == CASE k = 2 -> 5
            [] k = 3 -> 19
            [] OTHER -> 1

RECURSIVE Instant(_)
Instant(k) == IF k = 0 THEN 0 ELSE Instant(k - 1) + Gap(k - 1)

Tick(last) ==
    /\ \A p \in Procs : pc[p] = "idle"
    /\ \E k \in 0..(last - 1) : now = Instant(k) /\ now' = Instant(k + 1)
    /\ UNCHANGED <<slack_url, dbvars, runvars>>

---------------------------------------------------------------------------
(* Writers of the tables the alert flow reads *)

\* A scoring pass writes a new scores row for entity e, stamped with the
\* clock; (entity_id, ts) is the key, so a row needs a newer timestamp than
\* the entity's latest one.
WriteScore(e, v, s, h) ==
    /\ scores[e].ts < now \/ scores[e] = NoScore
    /\ scores' = [scores EXCEPT ![e] =
                    [ts |-> now, velocity_z |-> v, spread |-> s, heat |-> h]]
    /\ UNCHANGED <<now, slack_url, trade_min, trend_state, alerts, runvars>>

Score(E, I) == \E e \in E, in \in I : WriteScore(e, in[1], in[2], in[3])

\* The trade ingest inserts a trade_mentions row; later rows of the entity
\* have later first_seen_ts, so MIN(first_seen_ts) is set by the first one.
TradeMention(E) ==
    \E e \in E :
        /\ trade_min[e] = NULL
        /\ trade_min' = [trade_min EXCEPT ![e] = now]
        /\ UNCHANGED <<now, slack_url, scores, trend_state, alerts, runvars>>

---------------------------------------------------------------------------
(* Pure parts of actionable_alerts.py *)

OrZero(x) == IF x = NULL THEN 0 ELSE x

\* Variants of the gate: the spread test left out; the velocity gate at 2.0.
PassesGateVelOnly(vel, spread) == OrZero(vel) >= VEL_GATE

PassesGateLow(vel, spread) ==
    OrZero(vel) >= 20 /\ OrZero(spread) >= SPREAD_GATE

PassesGate(vel, spread) ==
    OrZero(vel) >= VEL_GATE /\ OrZero(spread) >= SPREAD_GATE

\* Variant of the gate-passing upsert: >= where the code has >.
UpsertPassGe(old, ts) ==
    IF old = NoRow
    THEN [NoRow EXCEPT !.last_gate_pass_ts = ts, !.consecutive_passes = 1]
    ELSE [old EXCEPT
            !.last_gate_pass_ts = ts,
            !.consecutive_passes =
                IF old.last_gate_pass_ts # NULL /\ ts >= old.last_gate_pass_ts
                THEN old.consecutive_passes + 1
                ELSE 1]

\* The gate-passing upsert of _update_trend_state applied to the row it
\* finds (NoRow: the INSERT branch).
UpsertPass(old, ts) ==
    IF old = NoRow
    THEN [NoRow EXCEPT !.last_gate_pass_ts = ts, !.consecutive_passes = 1]
    ELSE [old EXCEPT
            !.last_gate_pass_ts = ts,
            !.consecutive_passes =
                IF old.last_gate_pass_ts # NULL /\ ts > old.last_gate_pass_ts
                THEN old.consecutive_passes + 1
                ELSE 1]

\* Variant of the gate-failing upsert: DO NOTHING on conflict.
UpsertFailKeep(old) ==
    IF old = NoRow
    THEN [NoRow EXCEPT !.consecutive_passes = 0]
    ELSE old

\* The gate-failing upsert of _update_trend_state.
UpsertFail(old) ==
    IF old = NoRow
    THEN [NoRow EXCEPT !.consecutive_passes = 0]
    ELSE [old EXCEPT !.consecutive_passes = 0]

\* Variant of the UPDATE of post_alerts: prior_peak_heat = :heat.
UpdateLastAlertNoMax(old, ts, heat) ==
    IF old = NoRow
    THEN NoRow
    ELSE [old EXCEPT
            !.last_alert_ts = ts,
            !.last_alert_heat = heat,
            !.prior_peak_heat = heat]

\* The UPDATE of post_alerts.
UpdateLastAlert(old, ts, heat) ==
    IF old = NoRow
    THEN NoRow
    ELSE [old EXCEPT
            !.last_alert_ts = ts,
            !.last_alert_heat = heat,
            !.prior_peak_heat =
                IF OrZero(old.prior_peak_heat) >= heat
                THEN OrZero(old.prior_peak_heat)
                ELSE heat]

\* Variant of the debounce test: no reboost exception.
DebouncedNoReboost(st, heat, t) ==
    /\ st.last_alert_ts # NULL
    /\ (t - st.last_alert_ts) < DEBOUNCE_HOURS

Debounced(st, heat, t) ==
    /\ st.last_alert_ts # NULL
    /\ (t - st.last_alert_ts) < DEBOUNCE_HOURS
    /\ \/ st.last_alert_heat = NULL
       \/ heat * 10 < st.last_alert_heat * REBOOST_FACTOR

\* Variant of the suppression test: >= where the code has >.
TradeStaleGe(st, trade, heat, t) ==
    /\ trade # NULL
    /\ (t - trade) >= TRADE_SUPPRESS_AFTER_HOURS
    /\ heat < OrZero(st.prior_peak_heat)

TradeStale(st, trade, heat, t) ==
    /\ trade # NULL
    /\ (t - trade) > TRADE_SUPPRESS_AFTER_HOURS
    /\ heat < OrZero(st.prior_peak_heat)

_blocked_alert(st, trade, heat, t) ==
    Debounced(st, heat, t) \/ TradeStale(st, trade, heat, t)

\* sorted(to_alert, key=heat, reverse=True): stable, equal heats keep their
\* order.
RECURSIVE InsertByHeat(_, _)
InsertByHeat(c, s) ==
    IF s = <<>> THEN <<c>>
    ELSE IF Head(s).heat >= c.heat
         THEN <<Head(s)>> \o InsertByHeat(c, Tail(s))
         ELSE <<c>> \o s

RECURSIVE SortedByHeat(_)
SortedByHeat(s) ==
    IF s = <<>> THEN <<>>
    ELSE InsertByHeat(s[Len(s)], SortedByHeat(SubSeq(s, 1, Len(s) - 1)))

Truncate(s, n) == SubSeq(s, 1, IF Len(s) < n THEN Len(s) ELSE n)

\* Variant of _latest_scores: no window, the latest row of every entity.
RecentNoWindow == {e \in Entities : scores[e].ts # NULL}

\* The rows _latest_scores returns: the latest row of every entity that has
\* one within the last two hours.
Recent == {e \in Entities :
             scores[e].ts # NULL /\ scores[e].ts >= now - SCORE_WINDOW_HOURS}

LatestRow(e) == [eid |-> e, ts |-> scores[e].ts,
                 velocity_z |-> scores[e].velocity_z,
                 spread |-> scores[e].spread, heat |-> scores[e].heat]

\* The orders in which the query can return a set of entities.
Orders(S) == {q \in [1..Cardinality(S) -> S] :
                \A i, j \in 1..Cardinality(S) : i # j => q[i] # q[j]}

---------------------------------------------------------------------------
(* Transactions *)

NoWrites == [e \in Entities |-> NoRow]

\* The trend_state row a statement of run p sees: its own pending write, or
\* else the committed row.
View(p, e) == IF tx_state[p][e] # NoRow THEN tx_state[p][e] ELSE trend_state[e]

\* Variant: writers do not wait for each other.
NeverLocked(p, e) == FALSE

\* Another transaction holds the row lock of entity e.
RowLocked(p, e) == \E q \in Procs \ {p} : tx_state[q][e] # NoRow

\* The trend_state row the next statement of run p writes, if any.
Wants(p) ==
    IF pc[p] = "evaluate" THEN {Head(rows[p]).eid}
    ELSE IF pc[p] = "persist" /\ batch[p] # <<>> THEN {Head(batch[p]).eid}
    ELSE {}

Waiting(p, q) == \E e \in Wants(p) : tx_state[q][e] # NoRow

Committed(p) == [e \in Entities |->
                    IF tx_state[p][e] # NoRow THEN tx_state[p][e]
                    ELSE trend_state[e]]

\* The run ends (it returned sent, or raised): its locals are dropped and
\* whatever is still pending in its transaction is gone.
Ended(p) ==
    /\ pc' = [pc EXCEPT ![p] = "idle"]
    /\ rows' = [rows EXCEPT ![p] = <<>>]
    /\ to_alert' = [to_alert EXCEPT ![p] = <<>>]
    /\ filtered' = [filtered EXCEPT ![p] = <<>>]
    /\ batch' = [batch EXCEPT ![p] = <<>>]
    /\ sent' = [sent EXCEPT ![p] = 0]
    /\ pushed' = [pushed EXCEPT ![p] = {}]
    /\ failed' = [failed EXCEPT ![p] = {}]
    /\ tx_state' = [tx_state EXCEPT ![p] = NoWrites]
    /\ tx_alerts' = [tx_alerts EXCEPT ![p] = <<>>]

---------------------------------------------------------------------------
(* find_eligible_alerts *)

\* run_actionable_alerts starts: find_eligible_alerts opens its transaction
\* and fetches the latest rows.
Start(p) ==
    /\ pc[p] = "idle"
    /\ \E ord \in Orders(Recent) :
        /\ rows' = [rows EXCEPT ![p] = [i \in 1..Len(ord) |-> LatestRow(ord[i])]]
        /\ pc' = [pc EXCEPT ![p] = IF Len(ord) = 0 THEN "filter" ELSE "evaluate"]
    /\ UNCHANGED <<now, slack_url, dbvars, to_alert, filtered, batch, sent,
                   pushed, failed, tx_state, tx_alerts>>

\* One iteration of the loop over rows: gate, upsert, candidate.
Evaluate(p) ==
    /\ pc[p] = "evaluate"
    /\ LET r == Head(rows[p])
           passes_gate == PassesGate(r.velocity_z, r.spread)
           new == IF passes_gate THEN UpsertPass(View(p, r.eid), r.ts)
                  ELSE UpsertFail(View(p, r.eid))
           consec == new.consecutive_passes
       IN /\ ~RowLocked(p, r.eid)
          /\ tx_state' = [tx_state EXCEPT ![p][r.eid] = new]
          /\ to_alert' = [to_alert EXCEPT ![p] =
                IF consec >= PERSIST_POLLS /\ passes_gate
                THEN Append(@, [eid |-> r.eid, heat |-> OrZero(r.heat)])
                ELSE @]
          /\ rows' = [rows EXCEPT ![p] = Tail(@)]
          /\ pc' = [pc EXCEPT ![p] = IF Tail(rows[p]) = <<>> THEN "filter"
                                     ELSE "evaluate"]
    /\ UNCHANGED <<now, slack_url, dbvars, filtered, batch, sent, pushed,
                   failed, tx_alerts>>

\* The candidates of s that _blocked_alert lets through, in order.
RECURSIVE Unblocked(_, _)
Unblocked(p, s) ==
    IF s = <<>> THEN <<>>
    ELSE LET c == Head(s)
         IN IF _blocked_alert(View(p, c.eid), trade_min[c.eid], c.heat, now)
            THEN Unblocked(p, Tail(s))
            ELSE <<c>> \o Unblocked(p, Tail(s))

\* _apply_debounce_and_suppression.
Filter(p) ==
    /\ pc[p] = "filter"
    /\ filtered' = [filtered EXCEPT ![p] = Unblocked(p, SortedByHeat(to_alert[p]))]
    /\ pc' = [pc EXCEPT ![p] = "commit_find"]
    /\ UNCHANGED <<now, slack_url, dbvars, rows, to_alert, batch, sent, pushed,
                   failed, tx_state, tx_alerts>>

\* Variant of the end of find_eligible_alerts: post_alerts goes on without
\* a webhook.
CommitFindNoTest(p) ==
    /\ pc[p] = "commit_find"
    /\ trend_state' = Committed(p)
    /\ tx_state' = [tx_state EXCEPT ![p] = NoWrites]
    /\ to_alert' = [to_alert EXCEPT ![p] = <<>>]
    /\ filtered' = [filtered EXCEPT ![p] = <<>>]
    /\ \E l \in LimitVals :
          batch' = [batch EXCEPT ![p] = Truncate(filtered[p], l)]
    /\ pc' = [pc EXCEPT ![p] = "persist"]
    /\ UNCHANGED <<now, slack_url, scores, trade_min, alerts, rows, sent,
                   pushed, failed, tx_alerts>>

\* return filtered[:limit], for the limit the flow was called with: the
\* transaction commits and post_alerts is entered; without a webhook it
\* returns 0 at once.
CommitFind(p) ==
    /\ pc[p] = "commit_find"
    /\ trend_state' = Committed(p)
    /\ tx_state' = [tx_state EXCEPT ![p] = NoWrites]
    /\ to_alert' = [to_alert EXCEPT ![p] = <<>>]
    /\ filtered' = [filtered EXCEPT ![p] = <<>>]
    /\ IF slack_url
       THEN /\ \E l \in LimitVals :
                 batch' = [batch EXCEPT ![p] = Truncate(filtered[p], l)]
            /\ pc' = [pc EXCEPT ![p] = "persist"]
       ELSE /\ pc' = [pc EXCEPT ![p] = "idle"]
            /\ UNCHANGED batch
    /\ UNCHANGED <<now, slack_url, scores, trade_min, alerts, rows, sent,
                   pushed, failed, tx_alerts>>

---------------------------------------------------------------------------
(* post_alerts *)

AlertRow(e, ts, heat, trade) ==
    [entity_id |-> e, alert_ts |-> ts, heat |-> heat,
     pre_trade |-> (trade = NULL),
     lead_time_minutes |-> IF trade = NULL THEN NULL ELSE (ts - trade) * 60]

\* One iteration up to the Slack call: lead time, INSERT INTO alerts,
\* UPDATE trend_state, both pending in the transaction of post_alerts.
Persist(p) ==
    /\ pc[p] = "persist"
    /\ batch[p] # <<>>
    /\ LET c == Head(batch[p])
       IN /\ ~RowLocked(p, c.eid)
          /\ tx_alerts' = [tx_alerts EXCEPT ![p] =
                Append(@, AlertRow(c.eid, now, c.heat, trade_min[c.eid]))]
          /\ tx_state' = [tx_state EXCEPT ![p][c.eid] =
                UpdateLastAlert(View(p, c.eid), now, c.heat)]
          /\ batch' = [batch EXCEPT ![p] = Tail(@)]
          /\ pc' = [pc EXCEPT ![p] = "send"]
    /\ UNCHANGED <<now, slack_url, dbvars, rows, to_alert, filtered, sent,
                   pushed, failed>>

\* The alert whose push is being sent: the last one inserted.
Current(p) == tx_alerts[p][Len(tx_alerts[p])]

\* client.post returns with a 2xx answer: the push went out.
SendOk(p) ==
    /\ pc[p] = "send"
    /\ pushed' = [pushed EXCEPT ![p] = @ \cup {Current(p)}]
    /\ sent' = [sent EXCEPT ![p] = @ + 1]
    /\ pc' = [pc EXCEPT ![p] = "persist"]
    /\ UNCHANGED <<now, slack_url, dbvars, rows, to_alert, filtered, batch,
                   failed, tx_state, tx_alerts>>

\* client.post returns with an error status: no push went out, and the
\* answer is not looked at.
SendRejected(p) ==
    /\ pc[p] = "send"
    /\ failed' = [failed EXCEPT ![p] = @ \cup {Current(p)}]
    /\ sent' = [sent EXCEPT ![p] = @ + 1]
    /\ pc' = [pc EXCEPT ![p] = "persist"]
    /\ UNCHANGED <<now, slack_url, dbvars, rows, to_alert, filtered, batch,
                   pushed, tx_state, tx_alerts>>

\* client.post raises (connect error, timeout): the exception leaves both
\* with-blocks, the transaction is rolled back and the flow fails.
SendRaises(p) ==
    /\ pc[p] = "send"
    /\ Ended(p)
    /\ UNCHANGED <<now, slack_url, dbvars>>

\* The loop is over: the transaction commits and post_alerts returns sent.
CommitPost(p) ==
    /\ pc[p] = "persist"
    /\ batch[p] = <<>>
    /\ alerts' = alerts \o tx_alerts[p]
    /\ trend_state' = Committed(p)
    /\ Ended(p)
    /\ UNCHANGED <<now, slack_url, scores, trade_min>>

\* The process is terminated, or a statement or the commit fails, while a
\* transaction is open: the pending writes are rolled back.
Crash(p) ==
    /\ pc[p] # "idle"
    /\ Ended(p)
    /\ UNCHANGED <<now, slack_url, dbvars>>

\* Two transactions wait for each other's row lock: the database ends the
\* wait by failing one of them.
DeadlockAbort(p) ==
    /\ \E q \in Procs \ {p} : Waiting(p, q) /\ Waiting(q, p)
    /\ Ended(p)
    /\ UNCHANGED <<now, slack_url, dbvars>>

---------------------------------------------------------------------------
(* TokenBucket (src/libs/rate.py).  Here the clock counts seconds.  Tokens
   are fractions in the code; the model keeps every token count multiplied
   by interval, so that the refill of `elapsed` seconds, elapsed/interval *
   rate, is the whole number elapsed * rate. *)

MaxClock == 5
MaxDownClock == 2

Workers == {"w1", "w2"}
NeedVals == {1, 2}

\* TokenBucket(key, rate=1, interval=2, burst=2)
rate == 1
interval == 2
burst == 2

NoKey == [tokens |-> NULL, ts |-> NULL, exp |-> NULL]
NoRet == [ok |-> FALSE, from |-> "none"]

Least(a, b) == IF a <= b THEN a ELSE b
NonNeg(a) == IF a >= 0 THEN a ELSE 0

\* The hash a script run at server time t finds: EXPIRE has removed it
\* interval*2 seconds after its last write.
Live(key, t) == IF key # NoKey /\ t < key.exp THEN key ELSE NoKey

\* Variant of the script: a denial stores nothing.
LuaScriptDenyKeeps(key, t, n) ==
    LET tokens0 == IF key = NoKey THEN burst * interval ELSE key.tokens
        ts == IF key = NoKey THEN t ELSE key.ts
        elapsed == NonNeg(t - ts)
        tokens == Least(burst * interval, tokens0 + elapsed * rate)
    IN IF tokens >= n * interval
       THEN [ok |-> TRUE, tokens |-> tokens - n * interval, ts |-> t]
       ELSE [ok |-> FALSE, tokens |-> tokens0, ts |-> ts]

\* The Lua script of acquire, run on hash `key` (or NoKey) with now = t and
\* need = n: the answer and the hash fields it stores.
LuaScript(key, t, n) ==
    LET tokens0 == IF key = NoKey THEN burst * interval ELSE key.tokens
        ts == IF key = NoKey THEN t ELSE key.ts
        elapsed == NonNeg(t - ts)
        tokens == Least(burst * interval, tokens0 + elapsed * rate)
    IN IF tokens >= n * interval
       THEN [ok |-> TRUE, tokens |-> tokens - n * interval, ts |-> t]
       ELSE [ok |-> FALSE, tokens |-> tokens, ts |-> t]

\* Variant of the in-memory path: no cap at burst.
InMemoryNoCap(m, t, n) ==
    LET elapsed == NonNeg(t - m.ts)
        tokens == m.tokens + elapsed * rate
    IN IF tokens >= n * interval
       THEN [ok |-> TRUE, tokens |-> tokens - n * interval, ts |-> t]
       ELSE [ok |-> FALSE, tokens |-> tokens, ts |-> t]

\* The in-memory path of acquire on the worker's own bucket m.
InMemory(m, t, n) ==
    LET elapsed == NonNeg(t - m.ts)
        tokens == Least(burst * interval, m.tokens + elapsed * rate)
    IN IF tokens >= n * interval
       THEN [ok |-> TRUE, tokens |-> tokens - n * interval, ts |-> t]
       ELSE [ok |-> FALSE, tokens |-> tokens, ts |-> t]

\* Lines 56-63 for worker w: no await in them, one step.
Fallback(w) ==
    LET n == tb_need[w]
        r == InMemory(tb_mem[w], now, n)
    IN /\ tb_mem' = [tb_mem EXCEPT ![w] = [tokens |-> r.tokens, ts |-> r.ts]]
       /\ tb_ret' = [tb_ret EXCEPT ![w] = [ok |-> r.ok, from |-> "memory"]]
       /\ tb_mgranted' = [tb_mgranted EXCEPT ![w] = IF r.ok THEN @ + n ELSE @]
       /\ tb_pc' = [tb_pc EXCEPT ![w] = "idle"]
       /\ tb_now' = [tb_now EXCEPT ![w] = NULL]
       /\ tb_need' = [tb_need EXCEPT ![w] = NULL]

\* acquire(n) is called and _get_client answers: with a client, now is read
\* and the script call is sent; without one, the in-memory path is next.
Acquire(w, n) ==
    /\ tb_pc[w] = "idle"
    /\ tb_pc' = [tb_pc EXCEPT ![w] = IF tb_up THEN "eval" ELSE "memory"]
    /\ tb_now' = [tb_now EXCEPT ![w] = IF tb_up THEN now ELSE NULL]
    /\ tb_need' = [tb_need EXCEPT ![w] = n]
    /\ tb_ret' = [tb_ret EXCEPT ![w] = NoRet]
    /\ UNCHANGED <<now, alertvars, hvars, ivars, svars, dvars, rvars, tb_up, tb_key, tb_mem, tb_granted,
                   tb_mgranted>>

\* The script of worker w runs in the store, atomically, and acquire
\* returns its answer.
Eval(w) ==
    /\ tb_pc[w] = "eval"
    /\ tb_up
    /\ LET r == LuaScript(Live(tb_key, now), tb_now[w], tb_need[w])
       IN /\ tb_key' = [tokens |-> r.tokens, ts |-> r.ts,
                        exp |-> now + interval * 2]
          /\ tb_ret' = [tb_ret EXCEPT ![w] = [ok |-> r.ok, from |-> "store"]]
          /\ tb_granted' = IF r.ok THEN tb_granted + tb_need[w] ELSE tb_granted
    /\ tb_pc' = [tb_pc EXCEPT ![w] = "idle"]
    /\ tb_now' = [tb_now EXCEPT ![w] = NULL]
    /\ tb_need' = [tb_need EXCEPT ![w] = NULL]
    /\ UNCHANGED <<now, alertvars, hvars, ivars, svars, dvars, rvars, tb_up, tb_mem, tb_mgranted>>

\* The script call raises (the store went away): except: pass, and the
\* in-memory path answers.
EvalRaises(w) ==
    /\ tb_pc[w] = "eval"
    /\ ~tb_up
    /\ Fallback(w)
    /\ UNCHANGED <<now, alertvars, hvars, ivars, svars, dvars, rvars, tb_up, tb_key, tb_granted>>

\* There was no client: the in-memory path answers.
NoClient(w) ==
    /\ tb_pc[w] = "memory"
    /\ Fallback(w)
    /\ UNCHANGED <<now, alertvars, hvars, ivars, svars, dvars, rvars, tb_up, tb_key, tb_granted>>

\* The shared store goes away or comes back (its data kept).
StoreFlips ==
    /\ tb_up' = ~tb_up
    /\ UNCHANGED <<now, alertvars, hvars, ivars, svars, dvars, rvars, tb_key, tb_mem, tb_pc, tb_now, tb_need,
                   tb_ret, tb_granted, tb_mgranted>>

\* A second passes.
TBTick(last) ==
    /\ now < last
    /\ now' = now + 1
    /\ UNCHANGED <<alertvars, tbvars, hvars, ivars, svars, dvars, rvars>>

\* No bucket in use: the workers' buckets as __init__ leaves them.
TBInit ==
    /\ tb_up = TRUE
    /\ tb_key = NoKey
    /\ tb_mem = [w \in Workers |-> [tokens |-> burst * interval, ts |-> 0]]
    /\ tb_pc = [w \in Workers |-> "idle"]
    /\ tb_now = [w \in Workers |-> NULL]
    /\ tb_need = [w \in Workers |-> NULL]
    /\ tb_ret = [w \in Workers |-> NoRet]
    /\ tb_granted = 0
    /\ tb_mgranted = [w \in Workers |-> 0]

---------------------------------------------------------------------------
(* Source health and circuit breaker (src/libs/health.py).  Here the clock
   counts minutes. *)

MaxHealthClock == 15
MaxErrors == 3

Sources == {"trades", "reddit"}

\* Every source key a worker passes to the health functions.
HealthKeys == Sources \cup {"trade_rss"}
OpenMinutes == {5, 10}

NoHealth == [last_ok |-> NULL, last_error |-> NULL,
             consecutive_errors |-> NULL, circuit_open_until |-> NULL]
NoCall == [op |-> "none", source |-> "none", arg |-> NULL, done |-> FALSE,
           ret |-> FALSE]
\* The record of a call of health function op: done tells whether its
\* statement was executed, ret is the answer of is_circuit_open.
Call(op, s, arg, done, ret) ==
    [op |-> op, source |-> s, arg |-> arg, done |-> done, ret |-> ret]

\* GREATEST(a, b) of the database: a NULL argument is ignored.
GREATEST(a, b) == IF a = NULL THEN b ELSE IF b = NULL THEN a
                  ELSE IF a >= b THEN a ELSE b

\* Variant of the upsert of record_source_error: the window is overwritten.
ErrorRowOverwrites(old, t, open_minutes) ==
    IF old = NoHealth
    THEN [NoHealth EXCEPT !.last_error = t, !.consecutive_errors = 1,
                          !.circuit_open_until = t + open_minutes]
    ELSE [old EXCEPT !.last_error = t,
                     !.consecutive_errors = old.consecutive_errors + 1,
                     !.circuit_open_until = t + open_minutes]

\* The upsert of record_source_error.
ErrorRow(old, t, open_minutes) ==
    IF old = NoHealth
    THEN [NoHealth EXCEPT !.last_error = t, !.consecutive_errors = 1,
                          !.circuit_open_until = t + open_minutes]
    ELSE [old EXCEPT !.last_error = t,
                     !.consecutive_errors = old.consecutive_errors + 1,
                     !.circuit_open_until =
                        GREATEST(t + open_minutes, old.circuit_open_until)]

\* Variant of the upsert of record_source_ok: the window is kept.
OkRowKeepsWindow(old, t) ==
    IF old = NoHealth
    THEN [NoHealth EXCEPT !.last_ok = t, !.consecutive_errors = 0]
    ELSE [old EXCEPT !.last_ok = t, !.consecutive_errors = 0]

\* The upsert of record_source_ok.
OkRow(old, t) ==
    IF old = NoHealth
    THEN [NoHealth EXCEPT !.last_ok = t, !.consecutive_errors = 0]
    ELSE [old EXCEPT !.last_ok = t, !.consecutive_errors = 0,
                     !.circuit_open_until = NULL]

\* Variant of the test of is_circuit_open: <= where the code has <.
CircuitOpenLe(row, t) ==
    /\ row # NoHealth
    /\ row.circuit_open_until # NULL
    /\ t <= row.circuit_open_until

\* What is_circuit_open answers from the row it read.
CircuitOpen(row, t) ==
    /\ row # NoHealth
    /\ row.circuit_open_until # NULL
    /\ t < row.circuit_open_until

\* record_source_ok(source): the upsert, or, when the statement fails,
\* except: return.
record_source_ok(s) ==
    \/ /\ health' = [health EXCEPT ![s] = OkRow(@, now)]
       /\ h_last' = Call("ok", s, NULL, TRUE, FALSE)
    \/ /\ health' = health
       /\ h_last' = Call("ok", s, NULL, FALSE, FALSE)

\* record_source_error(source, open_minutes), likewise.
record_source_error(s, open_minutes) ==
    /\ OrZero(health[s].consecutive_errors) < MaxErrors
    /\ \/ /\ health' = [health EXCEPT ![s] = ErrorRow(@, now, open_minutes)]
          /\ h_last' = Call("error", s, open_minutes, TRUE, FALSE)
       \/ /\ health' = health
          /\ h_last' = Call("error", s, open_minutes, FALSE, FALSE)

\* is_circuit_open(source): the answer from the row, or, when the query
\* fails, except: return False.
is_circuit_open(s) ==
    /\ health' = health
    /\ \/ h_last' = Call("is_open", s, NULL, TRUE, CircuitOpen(health[s], now))
       \/ h_last' = Call("is_open", s, NULL, FALSE, FALSE)

\* Five minutes pass.
HTick ==
    /\ now < MaxHealthClock
    /\ now' = now + 5
    /\ UNCHANGED hvars

HInit ==
    /\ health = [s \in HealthKeys |-> NoHealth]
    /\ h_last = NoCall

---------------------------------------------------------------------------
(* The ingestion workers (src/flows/trade_rss_ingest.py, reddit_ingest.py,
   trends_ingest.py, trade_news_ingest.py), one run at a time.  The clock
   counts minutes; each worker's bucket is the store's hash of its own key,
   TokenBucket(rate, interval, burst) as above with the interval in
   minutes. *)

MaxIngestClock == 5
MaxUnits == 1
MaxRuns == 2

Jobs == {"ingest_trade_rss", "ingest_reddit_mentions", "ingest_trends",
         "run_trade_news_ingest"}

\* The source key a worker passes to the health functions (ingest_trends
\* passes none: "trends" is the name it audits under).
SourceKey(j) ==
    CASE j = "ingest_trade_rss" -> "trades"
      [] j = "ingest_reddit_mentions" -> "reddit"
      [] j = "run_trade_news_ingest" -> "trade_rss"
      [] OTHER -> "trends"

\* len(TRADE_URLS)
TRADE_URLS == 2

\* The workers that draw a token from a TokenBucket of their own key before
\* each unit of work.
Bucketed == {"ingest_trade_rss", "ingest_reddit_mentions", "ingest_trends"}

NoRun == [job |-> "none", pc |-> "idle", left |-> 0, got |-> 0, denied |-> 0,
          errors |-> 0, checked |-> "none", wrote |-> FALSE,
          raising |-> FALSE, calls |-> <<>>]

\* The worker j is started; `enabled` is its configuration (credentials
\* present, source enabled) and n the number of its units of work
\* (subreddits, entities, feeds).
StartRun(j, enabled, n) ==
    /\ run.job = "none"
    /\ runs < MaxRuns
    /\ runs' = runs + 1
    /\ run' = [NoRun EXCEPT
                !.job = j,
                !.left = IF j = "ingest_trade_rss" THEN TRADE_URLS ELSE n,
                !.pc = CASE j = "ingest_trade_rss" -> "check"
                         [] j = "ingest_reddit_mentions" ->
                                IF enabled THEN "check" ELSE "return"
                         [] j = "ingest_trends" -> "loop"
                         [] OTHER -> IF enabled THEN "limiter" ELSE "return"]
    /\ UNCHANGED <<now, hvars, buckets>>

\* if await is_circuit_open(source): audit and return 0
CheckCircuit ==
    /\ run.pc = "check"
    /\ is_circuit_open(SourceKey(run.job))
    /\ run' = [run EXCEPT
                !.checked = SourceKey(run.job),
                !.pc = IF h_last'.ret THEN "return"
                       ELSE IF run.job = "ingest_reddit_mentions"
                            THEN "client" ELSE "loop"]
    /\ UNCHANGED <<now, buckets, runs>>

\* _make_reddit_client: a client, or None after a failure.
MakeClient(ok) ==
    /\ run.pc = "client"
    /\ run' = IF ok THEN [run EXCEPT !.pc = "loop"]
              ELSE [run EXCEPT !.errors = @ + 1, !.pc = "record_error"]
    /\ UNCHANGED <<now, hvars, buckets, runs>>

\* rate_limiter(key, max_calls, window_seconds): a TokenBucket built for
\* this call, without a store, asked for one token; ValueError on denial.
rate_limiter ==
    InMemory([tokens |-> burst * interval, ts |-> now], now, 1).ok

\* await rate_limiter("news", ...), then get_tracked_entities(): n entities.
Limiter(n) ==
    /\ run.pc = "limiter"
    /\ run' = IF ~rate_limiter
              THEN [run EXCEPT !.denied = @ + 1, !.raising = TRUE,
                               !.pc = "record_error"]
              ELSE IF n = 0 THEN [run EXCEPT !.pc = "return"]
              ELSE [run EXCEPT !.pc = "loop"]
    /\ UNCHANGED <<now, hvars, buckets, runs>>

\* The head of the loop over the units of work: bucket.acquire(1) where the
\* worker has a bucket; denied, the unit is skipped.
LoopAcquire ==
    /\ run.pc = "loop"
    /\ run.left > 0
    /\ IF run.job \in Bucketed
       THEN LET r == LuaScript(Live(buckets[run.job], now), now, 1)
            IN /\ buckets' = [buckets EXCEPT ![run.job] =
                                [tokens |-> r.tokens, ts |-> r.ts,
                                 exp |-> now + interval * 2]]
               /\ run' = IF r.ok THEN [run EXCEPT !.pc = "fetch"]
                         ELSE [run EXCEPT !.denied = @ + 1, !.left = @ - 1]
       ELSE /\ buckets' = buckets
            /\ run' = [run EXCEPT !.pc = "fetch"]
    /\ UNCHANGED <<now, hvars, runs>>

\* The unit of work: the feed, subreddit or keyword is fetched (and, in
\* ingest_trends, its points are inserted); a failure is caught and audited.
Fetch(ok) ==
    /\ run.pc = "fetch"
    /\ run' = [run EXCEPT
                !.got = IF ok THEN @ + 1 ELSE @,
                !.errors = IF ok THEN @ ELSE @ + 1,
                !.wrote = @ \/ (ok /\ run.job = "ingest_trends"),
                !.left = @ - 1,
                !.pc = "loop"]
    /\ UNCHANGED <<now, hvars, buckets, runs>>

\* The loop is over.
LoopEnd ==
    /\ run.pc = "loop"
    /\ run.left = 0
    /\ run' = [run EXCEPT !.pc =
                CASE run.job = "ingest_trade_rss" ->
                        IF run.got = 0 THEN "record_error" ELSE "write"
                  [] run.job = "ingest_trends" -> "return"
                  [] OTHER -> "write"]
    /\ UNCHANGED <<now, hvars, buckets, runs>>

\* The mentions or signals are written; a failure of the database raises,
\* out of the worker, or into the except clause of run_trade_news_ingest.
Write(ok) ==
    /\ run.pc = "write"
    /\ run' = IF ok THEN [run EXCEPT !.wrote = TRUE, !.pc = "record_ok"]
              ELSE IF run.job = "run_trade_news_ingest"
              THEN [run EXCEPT !.errors = @ + 1, !.raising = TRUE,
                               !.pc = "record_error"]
              ELSE [run EXCEPT !.errors = @ + 1, !.raising = TRUE,
                               !.pc = "return"]
    /\ UNCHANGED <<now, hvars, buckets, runs>>

\* await record_source_ok(source)
RecordOk ==
    /\ run.pc = "record_ok"
    /\ record_source_ok(SourceKey(run.job))
    /\ run' = [run EXCEPT
                !.calls = Append(@, <<"ok", SourceKey(run.job)>>),
                !.pc = "return"]
    /\ UNCHANGED <<now, buckets, runs>>

\* await record_source_error(source), open_minutes at its default
RecordError ==
    /\ run.pc = "record_error"
    /\ record_source_error(SourceKey(run.job), 10)
    /\ run' = [run EXCEPT
                !.calls = Append(@, <<"error", SourceKey(run.job)>>),
                !.pc = "return"]
    /\ UNCHANGED <<now, buckets, runs>>

\* The run ends: it returns, or its exception leaves the worker.
Return ==
    /\ run.pc = "return"
    /\ run' = NoRun
    /\ UNCHANGED <<now, hvars, buckets, runs>>

\* Five minutes pass.
ITick ==
    /\ now < MaxIngestClock
    /\ now' = now + 5
    /\ UNCHANGED <<hvars, ivars>>

IInit ==
    /\ run = NoRun
    /\ buckets = [j \in Bucketed |-> NoKey]
    /\ runs = 0

---------------------------------------------------------------------------
(* The scoring passes (src/flows/scoring_job.py, mvp_scoring.py,
   rescore_tiktok.py) over the scores table, whose key is (entity_id, ts).
   The clock counts hours; heat is kept in thousandths, velocity_z and
   tiktok_z in tenths, spread in thirds. *)

MaxScoreClock == 1
MaxRescoreClock == 3
MaxPasses == 3

Kinds == {"mvp", "tiktok", "backfill"}

\* What calculate_multidimensional_heat_score can give: <<velocity, heat>>
AdvResults == {<<10, 100>>, <<30, 900>>}

\* The same, with a velocity of zero among them
SpreadResults == {<<0, 100>>, <<30, 900>>}

\* What tiktok_component can give for the TikTok signals of an entity
TikTokZ == {10}

\* TIKTOK_WEIGHT = 0.2: thousandths of heat per tenth of tiktok_z
TIKTOK_WEIGHT == 20

NoSignals == [reddit |-> FALSE, trends |-> FALSE, tiktok |-> NULL]

NoPass == [pc |-> "idle", now |-> NULL, todo |-> {}, tx |-> {}, updated |-> 0]

\* The rows of entity e in a set of score rows.
RowsOf(R, e) == {r \in R : r.entity_id = e}

\* SELECT ... ORDER BY ts DESC LIMIT 1: the latest row of e (R has one).
LatestOf(R, e) ==
    CHOOSE r \in RowsOf(R, e) : \A q \in RowsOf(R, e) : q.ts <= r.ts

\* WITH latest AS (SELECT entity_id, MAX(ts) ...): the latest row of every
\* entity that has one.
Latest(R) == {LatestOf(R, e) : e \in {r.entity_id : r \in R}}

\* The key (entity_id, ts) is taken in R.
KeyTaken(R, e, ts) == \E r \in R : r.entity_id = e /\ r.ts = ts

\* cap(x, lo, hi)
cap(x, lo, hi) == IF x < lo THEN lo ELSE IF x > hi THEN hi ELSE x

\* platform_spread(active), in thirds, for the active that score_all_mvp
\* builds: reddit by its signals, trends true when the velocity is not
\* zero and else by its signals, tiktok by its signals.
platform_spread(sg, v) ==
    (IF sg.reddit THEN 1 ELSE 0) + (IF v # 0 \/ sg.trends THEN 1 ELSE 0)
        + (IF sg.tiktok # NULL THEN 1 ELSE 0)

\* math.exp(-h / 24.0) in thousandths, for the hours the model can reach;
\* hours_since(None) = 999 gives 0.
Decay(h) ==
    CASE h = 0 -> 1000
      [] h = 1 -> 959
      [] h = 2 -> 920
      [] h = 3 -> 882
      [] h = 4 -> 846
      [] OTHER -> 0

\* _latest_peak_ts: the ts of the row of e with the highest heat, the
\* latest among equals; NULL without a row.
latest_peak_ts(R, e) ==
    IF RowsOf(R, e) = {} THEN NULL
    ELSE (CHOOSE r \in RowsOf(R, e) :
            \A q \in RowsOf(R, e) :
                q.heat < r.heat \/ (q.heat = r.heat /\ q.ts <= r.ts)).ts

\* hours_since(ts)
hours_since(ts, t) == IF ts = NULL THEN 999 ELSE t - ts

\* compute_heat(v, spread, affect, hours_since_peak) with affect 0 (the
\* model's store holds no gdelt_gkg signal): the heat, in thousandths.
compute_heat(v, spread, hs_peak) ==
    LET raw == 50 * cap(v, -40, 40) + 100 * cap(spread, 0, 3)
    IN (raw * Decay(IF hs_peak > 0 THEN hs_peak ELSE 0)) \div 1000

\* The row score_all_mvp inserts for entity e of velocity v, at time t of
\* the statement, in a pass begun at `begun`: accel, novelty, et_fit,
\* tentpole and risk are NULL (full = FALSE), reasons is set.
MvpRow(R, sg, e, v, begun, t) ==
    [entity_id |-> e, ts |-> begun, velocity_z |-> cap(v, -40, 40),
     spread |-> cap(platform_spread(sg, v), 0, 3),
     heat |-> compute_heat(v, platform_spread(sg, v),
                           hours_since(latest_peak_ts(R, e), t)),
     full |-> FALSE, reasons |-> TRUE]

\* The row persist_score writes: every component a number, no reasons.
AdvRow(e, when, res) ==
    [entity_id |-> e, ts |-> when, velocity_z |-> res[1], heat |-> res[2],
     full |-> TRUE, reasons |-> FALSE]

\* The row rescore_entities_with_tiktok inserts from the latest row srow
\* of an entity and its tiktok_z.
FoldRow(srow, z, begun) ==
    [entity_id |-> srow.entity_id, ts |-> begun,
     velocity_z |-> srow.velocity_z, heat |-> srow.heat + TIKTOK_WEIGHT * z,
     full |-> TRUE, reasons |-> FALSE]

\* INSERT ... ON CONFLICT (entity_id, ts) DO UPDATE SET ... of persist_score
Upsert(R, row) ==
    {r \in R : ~(r.entity_id = row.entity_id /\ r.ts = row.ts)} \cup {row}

\* The rows other open transactions have inserted.
Uncommitted(k) == UNION {passes[o].tx : o \in Kinds \ {k}}

\* A signal of source src arrives for entity e (insert_signal).
SignalArrives(e, src, z) ==
    /\ signals' = [signals EXCEPT ![e] =
                    IF src = "reddit"
                    THEN [@ EXCEPT !.reddit = TRUE]
                    ELSE IF src = "trends"
                    THEN [@ EXCEPT !.trends = TRUE]
                    ELSE [@ EXCEPT !.tiktok = z]]
    /\ signals' # signals
    /\ UNCHANGED <<now, score_rows, passes, started>>

\* score_entity(e) of run_scoring_hourly: the result is persisted at
\* datetime.now() in a transaction of its own; an exception is caught and
\* logged by the loop.
score_entity(e, res, ok) ==
    /\ started < MaxPasses
    /\ started' = started + 1
    /\ ~KeyTaken(Uncommitted("none"), e, now)
    /\ score_rows' = IF ok THEN Upsert(score_rows, AdvRow(e, now, res))
                     ELSE score_rows
    /\ UNCHANGED <<now, signals, passes>>

\* A pass begins: now is read, and the entities to visit are fetched (every
\* entity for the backfill, the latest row of every scored entity for the
\* two others).
PassStart(k) ==
    /\ passes[k].pc = "idle"
    /\ started < MaxPasses
    /\ started' = started + 1
    /\ k # "backfill" => score_rows # {}
    /\ passes' = [passes EXCEPT ![k] =
                    [NoPass EXCEPT
                        !.pc = "run",
                        !.now = now,
                        !.todo = IF k = "backfill"
                                 THEN {[entity_id |-> e] : e \in Entities}
                                 ELSE Latest(score_rows)]]
    /\ UNCHANGED <<now, signals, score_rows>>

\* The pass k raises: its transaction is rolled back and it ends.
Raise(k) ==
    /\ passes' = [passes EXCEPT ![k] = NoPass]
    /\ score_rows' = score_rows

\* score_all_mvp, one turn of the loop: the row of an entity is computed
\* and inserted at ts = the pass's now; a failing statement, or a taken
\* key, raises out of the loop.
MvpEntity(ok) ==
    /\ passes["mvp"].pc = "run"
    /\ \E l \in passes["mvp"].todo :
        LET p == passes["mvp"]
            e == l.entity_id
            row == MvpRow(score_rows \cup p.tx, signals[e], e,
                          l.velocity_z,
                          p.now, now)
        IN /\ ~KeyTaken(Uncommitted("mvp"), e, p.now)
           /\ IF ok /\ ~KeyTaken(score_rows \cup p.tx, e, p.now)
              THEN /\ passes' = [passes EXCEPT !["mvp"] =
                                    [p EXCEPT !.todo = @ \ {l},
                                              !.tx = @ \cup {row},
                                              !.updated = @ + 1]]
                   /\ score_rows' = score_rows
              ELSE Raise("mvp")
    /\ UNCHANGED <<now, signals, started>>

\* rescore_entities_with_tiktok, one turn of the loop, the entities in the
\* order of their latest ts, latest first: an entity without TikTok signals
\* is skipped; float() of a NULL component of the latest row raises.
FoldEntity(ok) ==
    /\ passes["tiktok"].pc = "run"
    /\ \E l \in passes["tiktok"].todo :
        LET p == passes["tiktok"]
            e == l.entity_id
            srow == LatestOf(score_rows \cup p.tx, e)
        IN /\ \A q \in p.todo : q.ts <= l.ts
           /\ ~KeyTaken(Uncommitted("tiktok"), e, p.now)
           /\ IF ~ok THEN Raise("tiktok")
              ELSE IF signals[e].tiktok = NULL
              THEN /\ passes' = [passes EXCEPT !["tiktok"] =
                                    [p EXCEPT !.todo = @ \ {l}]]
                   /\ score_rows' = score_rows
              ELSE IF ~srow.full \/ KeyTaken(score_rows \cup p.tx, e, p.now)
              THEN Raise("tiktok")
              ELSE /\ passes' = [passes EXCEPT !["tiktok"] =
                        [p EXCEPT !.todo = @ \ {l},
                                  !.tx = @ \cup
                                    {FoldRow(srow, signals[e].tiktok, p.now)},
                                  !.updated = @ + 1]]
                   /\ score_rows' = score_rows
    /\ UNCHANGED <<now, signals, started>>

\* backfill_scoring, one turn of the loop: persist_score at the pass's now
\* in a transaction of its own; an exception is caught and logged.
BackfillEntity(res, ok) ==
    /\ passes["backfill"].pc = "run"
    /\ \E l \in passes["backfill"].todo :
        LET p == passes["backfill"]
        IN /\ ~KeyTaken(Uncommitted("backfill"), l.entity_id, p.now)
           /\ passes' = [passes EXCEPT !["backfill"] =
                            [p EXCEPT !.todo = @ \ {l},
                                      !.updated = IF ok THEN @ + 1 ELSE @]]
           /\ score_rows' = IF ok
                            THEN Upsert(score_rows,
                                        AdvRow(l.entity_id, p.now, res))
                            ELSE score_rows
    /\ UNCHANGED <<now, signals, started>>

\* The loop of pass k is over: its transaction commits and it returns the
\* number of rows it wrote.
PassEnd(k) ==
    /\ passes[k].pc = "run"
    /\ passes[k].todo = {}
    /\ score_rows' = score_rows \cup passes[k].tx
    /\ passes' = [passes EXCEPT ![k] = NoPass]
    /\ UNCHANGED <<now, signals, started>>

\* An hour passes.
STick(last) ==
    /\ now < last
    /\ now' = now + 1
    /\ UNCHANGED svars

SInit ==
    /\ signals = [e \in Entities |-> NoSignals]
    /\ score_rows = {}
    /\ passes = [k \in Kinds |-> NoPass]
    /\ started = 0

---------------------------------------------------------------------------

---------------------------------------------------------------------------
(* The writers of src/libs/db.py: upsert_entity and insert_signal, each
   called on a connection whose transaction conn_ctx opens and ends.  The
   signals table has one row per (entity_id, source, metric, ts); the
   entities table has one row per name. *)

MaxDbOps == 3

Conns == {"c1", "c2"}

\* What the callers write
SignalSources == {"reddit"}
SignalMetrics == {"mentions"}
SignalTs == {0, 1}
SignalValues == {1, 2}
EntityNames == {"n1"}
EntityTypes == {"person", "show"}
Aliases == {"a", "b"}
Categories == {NULL, 1}
WikiIds == {NULL, 7}

NoEntity == [id |-> NULL, type |-> "none", category |-> NULL,
             aliases |-> {}, wiki_id |-> NULL]

NoConn == [open |-> FALSE, signals |-> {},
           entities |-> [n \in EntityNames |-> NoEntity]]

NoStatement == [op |-> "none", row |-> NoEntity, ret |-> NULL]

\* The columns of a signals row that make its key.
SignalKey(r) == <<r.entity_id, r.source, r.metric, r.ts>>

\* The signals rows a statement of connection c sees.
SignalView(c) == signal_rows \cup conn[c].signals

\* The entities row of name n a statement of connection c sees.
EntityView(c, n) == IF conn[c].entities[n] # NoEntity THEN conn[c].entities[n]
                    ELSE entity_rows[n]

\* Variant of the INSERT of insert_signal: DO UPDATE SET value on conflict.
InsertSignalUpdates(R, row) ==
    {r \in R : SignalKey(r) # SignalKey(row)} \cup {row}

\* INSERT INTO signals ... ON CONFLICT DO NOTHING, on the rows R.
InsertSignal(R, row) ==
    IF \E r \in R : SignalKey(r) = SignalKey(row) THEN R ELSE R \cup {row}

\* INSERT INTO entities ... ON CONFLICT (name) DO UPDATE SET aliases =
\* EXCLUDED.aliases, category = COALESCE(EXCLUDED.category,
\* entities.category), applied to the row of that name (NoEntity: none).
UpsertEntity(old, id, etype, category, aliases, wiki_id) ==
    IF old = NoEntity
    THEN [id |-> id, type |-> etype, category |-> category,
          aliases |-> aliases, wiki_id |-> wiki_id]
    ELSE [old EXCEPT
            !.aliases = aliases,
            !.category = IF category # NULL THEN category ELSE old.category]

\* async with engine.begin() as conn
conn_ctx(c) ==
    /\ ~conn[c].open
    /\ db_ops < MaxDbOps
    /\ conn' = [conn EXCEPT ![c].open = TRUE]
    /\ UNCHANGED <<now, signal_rows, entity_rows, db_last, db_seq, db_ops>>

\* insert_signal(conn, entity_id, source, ts, metric, value); the statement
\* waits while another transaction holds an uncommitted row of the key.
insert_signal(c, entity_id, source, ts, metric, value) ==
    LET row == [entity_id |-> entity_id, source |-> source, ts |-> ts,
                metric |-> metric, value |-> value]
        after == InsertSignal(SignalView(c), row)
    IN /\ conn[c].open
       /\ db_ops < MaxDbOps
       /\ db_ops' = db_ops + 1
       /\ \A o \in Conns \ {c} :
            \A r \in conn[o].signals : SignalKey(r) # SignalKey(row)
       /\ conn' = [conn EXCEPT ![c].signals = after \ signal_rows]
       /\ signal_rows' = signal_rows \cap after
       /\ db_last' = [db_last EXCEPT ![c] =
                        [op |-> "insert_signal", row |-> row, ret |-> NULL]]
       /\ UNCHANGED <<now, entity_rows, db_seq>>

\* upsert_entity(conn, name, etype, aliases, wiki_id, category): the id
\* column takes the next value of its sequence, the statement waits while
\* another transaction holds an uncommitted row of the name, and the id of
\* the row is returned.
upsert_entity(c, name, etype, aliases, wiki_id, category) ==
    LET new == UpsertEntity(EntityView(c, name), db_seq + 1, etype, category,
                            aliases, wiki_id)
    IN /\ conn[c].open
       /\ db_ops < MaxDbOps
       /\ db_ops' = db_ops + 1
       /\ db_seq' = db_seq + 1
       /\ \A o \in Conns \ {c} : conn[o].entities[name] = NoEntity
       /\ conn' = [conn EXCEPT ![c].entities[name] = new]
       /\ db_last' = [db_last EXCEPT ![c] =
                        [op |-> "upsert_entity", row |-> new, ret |-> new.id]]
       /\ UNCHANGED <<now, signal_rows, entity_rows>>

\* The with-block of conn_ctx is left: the transaction commits.
DbCommit(c) ==
    /\ conn[c].open
    /\ signal_rows' = signal_rows \cup conn[c].signals
    /\ entity_rows' = [n \in EntityNames |-> EntityView(c, n)]
    /\ conn' = [conn EXCEPT ![c] = NoConn]
    /\ db_last' = [db_last EXCEPT ![c] = NoStatement]
    /\ UNCHANGED <<now, db_seq, db_ops>>

\* The with-block is left by an exception of the caller: rollback.
DbRollback(c) ==
    /\ conn[c].open
    /\ conn' = [conn EXCEPT ![c] = NoConn]
    /\ db_last' = [db_last EXCEPT ![c] = NoStatement]
    /\ UNCHANGED <<now, signal_rows, entity_rows, db_seq, db_ops>>

DInit ==
    /\ signal_rows = {}
    /\ entity_rows = [n \in EntityNames |-> NoEntity]
    /\ conn = [c \in Conns |-> NoConn]
    /\ db_last = [c \in Conns |-> NoStatement]
    /\ db_seq = 0
    /\ db_ops = 0

---------------------------------------------------------------------------
(* Callers of rate_limiter (src/libs/rate.py), each with max_calls = burst
   and window_seconds = interval; the clock counts seconds. *)

MaxLimiterClock == 2
MaxCalls == 3

\* The sources the flows pass to rate_limiter
LimitedSources == {"reddit", "news", "youtube"}

\* await rate_limiter(source, max_calls, window_seconds): True, or the
\* ValueError 'Rate limit exceeded'.
RateLimiterCall(source) ==
    /\ rl_calls[source] < MaxCalls
    /\ rl_ret' = [rl_ret EXCEPT ![source] =
                    IF rate_limiter THEN "true" ELSE "raised"]
    /\ rl_calls' = [rl_calls EXCEPT ![source] =
                    IF rate_limiter THEN @ + 1 ELSE @]
    /\ UNCHANGED now

\* A second passes.
RTick ==
    /\ now < MaxLimiterClock
    /\ now' = now + 1
    /\ rl_calls' = [s \in LimitedSources |-> 0]
    /\ UNCHANGED rl_ret

RInit ==
    /\ rl_calls = [s \in LimitedSources |-> 0]
    /\ rl_ret = [s \in LimitedSources |-> "none"]

Init ==
    /\ now = 0
    /\ cycle = 0
    /\ slack_url \in BOOLEAN
    /\ scores = [e \in Entities |-> NoScore]
    /\ trade_min = [e \in Entities |-> NULL]
    /\ trend_state = [e \in Entities |-> NoRow]
    /\ alerts = <<>>
    /\ pc = [p \in Procs |-> "idle"]
    /\ rows = [p \in Procs |-> <<>>]
    /\ to_alert = [p \in Procs |-> <<>>]
    /\ filtered = [p \in Procs |-> <<>>]
    /\ batch = [p \in Procs |-> <<>>]
    /\ sent = [p \in Procs |-> 0]
    /\ pushed = [p \in Procs |-> {}]
    /\ failed = [p \in Procs |-> {}]
    /\ tx_state = [p \in Procs |-> NoWrites]
    /\ tx_alerts = [p \in Procs |-> <<>>]
    /\ TBInit
    /\ HInit
    /\ IInit
    /\ SInit
    /\ DInit
    /\ RInit

\* A step of the flows when they are scheduled independently.
Free(A) == A /\ UNCHANGED <<cycle, libvars>>

\* One run of the alert flow at a time, over one tracked entity.
Next ==
    \/ Free(Tick(MaxTick))
    \/ Free(Score(Tracked, ScoreInputs))
    \/ Free(TradeMention(Tracked))
    \/ \E p \in Solo : Free(Start(p))
    \/ \E p \in Solo : Free(Evaluate(p))
    \/ \E p \in Solo : Free(Filter(p))
    \/ \E p \in Solo : Free(CommitFind(p))
    \/ \E p \in Solo : Free(Persist(p))
    \/ \E p \in Solo : Free(SendOk(p))
    \/ \E p \in Solo : Free(SendRejected(p))
    \/ \E p \in Solo : Free(SendRaises(p))
    \/ \E p \in Solo : Free(CommitPost(p))
    \/ \E p \in Solo : Free(Crash(p))

Spec == Init /\ [][Next]_vars

\* Two runs of the alert flow at once, over one tracked entity.
NextConc ==
    \/ Free(Tick(MaxConcTick))
    \/ Free(Score(Tracked, ScoreInputs))
    \/ Free(TradeMention(Tracked))
    \/ \E p \in Procs : Free(Start(p))
    \/ \E p \in Procs : Free(Evaluate(p))
    \/ \E p \in Procs : Free(Filter(p))
    \/ \E p \in Procs : Free(CommitFind(p))
    \/ \E p \in Procs : Free(Persist(p))
    \/ \E p \in Procs : Free(SendOk(p))
    \/ \E p \in Procs : Free(SendRejected(p))
    \/ \E p \in Procs : Free(SendRaises(p))
    \/ \E p \in Procs : Free(CommitPost(p))
    \/ \E p \in Procs : Free(Crash(p))

SpecConc == Init /\ [][NextConc]_vars

\* Batches: two runs at once, every entity scored, gate-passing rows only.
NextBatch ==
    \/ Free(Tick(MaxBatchTick))
    \/ Free(Score(Entities, BatchInputs))
    \/ \E p \in Procs : Free(Start(p))
    \/ \E p \in Procs : Free(Evaluate(p))
    \/ \E p \in Procs : Free(Filter(p))
    \/ \E p \in Procs : Free(CommitFind(p))
    \/ \E p \in Procs : Free(Persist(p))
    \/ \E p \in Procs : Free(SendOk(p))
    \/ \E p \in Procs : Free(SendRejected(p))
    \/ \E p \in Procs : Free(SendRaises(p))
    \/ \E p \in Procs : Free(CommitPost(p))
    \/ \E p \in Procs : Free(Crash(p))
    \/ \E p \in Procs : Free(DeadlockAbort(p))

SpecBatch == Init /\ [][NextBatch]_vars

---------------------------------------------------------------------------
(* daily_pipeline, scripted: in cycle k the scoring pass writes the k-th
   velocity of E2EVel for e1, then one alert pass runs to its end with the
   webhook configured and the push accepted, then the clock ticks.
   cycle = 3k: to score; 3k + 1: alert pass; 3k + 2: to tick. *)

E2EPolls == Len(E2EVel)

E2EScore ==
    /\ cycle % 3 = 0
    /\ cycle \div 3 < E2EPolls
    /\ \E s \in E2ESpread, h \in E2EHeat :
          WriteScore("e1", E2EVel[(cycle \div 3) + 1], s, h)
    /\ cycle' = cycle + 1
    /\ UNCHANGED libvars

E2EPass(A) ==
    /\ cycle % 3 = 1
    /\ A
    /\ cycle' = IF pc'["A"] = "idle" THEN cycle + 1 ELSE cycle
    /\ UNCHANGED libvars

E2ETick ==
    /\ cycle % 3 = 2
    /\ Tick(MaxTick)
    /\ cycle' = cycle + 1
    /\ UNCHANGED libvars

InitE2E == Init /\ slack_url

NextE2E ==
    \/ E2EScore
    \/ E2ETick
    \/ E2EPass(Start("A"))
    \/ E2EPass(Evaluate("A"))
    \/ E2EPass(Filter("A"))
    \/ E2EPass(CommitFind("A"))
    \/ E2EPass(Persist("A"))
    \/ E2EPass(SendOk("A"))
    \/ E2EPass(CommitPost("A"))

SpecE2E == InitE2E /\ [][NextE2E]_vars

---------------------------------------------------------------------------
(* The scheduler at work for ever, scripted: in every cycle the scoring
   pass writes a gate-passing row for each entity, stamped with the clock,
   then one alert pass runs to its end with the webhook configured and the
   push accepted, then DEBOUNCE_HOURS pass.  Every step that can be taken
   is taken in the end.
   cycle = 3k: to score; 3k + 1: alert pass; 3k + 2: to tick. *)

\* The heats the scoring pass may give an entity.
FairHeat(e) == IF e = "e1" THEN {10, 14} ELSE {10}

FairScore ==
    /\ cycle % 3 = 0
    /\ \E e \in Entities : \E h \in FairHeat(e) :
          /\ WriteScore(e, VEL_GATE, SPREAD_GATE, h)
          /\ cycle' = IF \A o \in Entities : scores'[o].ts = now
                      THEN cycle + 1 ELSE cycle
    /\ UNCHANGED libvars

FairTick ==
    /\ cycle % 3 = 2
    /\ now < MaxFairClock
    /\ now' = now + DEBOUNCE_HOURS
    /\ cycle' = cycle + 1
    /\ UNCHANGED <<slack_url, dbvars, runvars, libvars>>

NextFair ==
    \/ FairScore
    \/ FairTick
    \/ E2EPass(Start("A"))
    \/ E2EPass(Evaluate("A"))
    \/ E2EPass(Filter("A"))
    \/ E2EPass(CommitFind("A"))
    \/ E2EPass(Persist("A"))
    \/ E2EPass(SendOk("A"))
    \/ E2EPass(CommitPost("A"))

SpecFair == InitE2E /\ [][NextFair]_vars /\ WF_vars(NextFair)

---------------------------------------------------------------------------
(* Workers calling acquire on one key, against a store that comes and goes *)

InitTB == Init /\ ~slack_url

\* One run of the alert flow at a time over one tracked entity, no webhook
\* configured, every run reaching its return.
NextNoChannel ==
    \/ Free(Tick(MaxTick))
    \/ Free(Score(Tracked, ScoreInputs))
    \/ Free(TradeMention(Tracked))
    \/ \E p \in Solo : Free(Start(p))
    \/ \E p \in Solo : Free(Evaluate(p))
    \/ \E p \in Solo : Free(Filter(p))
    \/ \E p \in Solo : Free(CommitFind(p))

SpecNoChannel == InitTB /\ [][NextNoChannel]_vars

\* Two workers race on the key of a store that stays up.
NextTB ==
    \/ TBTick(MaxClock)
    \/ \E w \in Workers, n \in NeedVals : Acquire(w, n)
    \/ \E w \in Workers : Eval(w)

SpecTB == InitTB /\ [][NextTB]_vars

\* The store comes and goes under two workers.
NextTBDown ==
    \/ TBTick(MaxDownClock)
    \/ StoreFlips
    \/ \E w \in Workers, n \in NeedVals : Acquire(w, n)
    \/ \E w \in Workers : Eval(w)
    \/ \E w \in Workers : EvalRaises(w)
    \/ \E w \in Workers : NoClient(w)

SpecTBDown == InitTB /\ [][NextTBDown]_vars

---------------------------------------------------------------------------
(* Callers of the health functions, in any order *)

\* A step of the health library alone.
HFree(A) == A /\ UNCHANGED <<alertvars, tbvars, ivars, svars, dvars, rvars>>

NextHealth ==
    \/ HFree(HTick)
    \/ \E s \in Sources : HFree(record_source_ok(s) /\ UNCHANGED now)
    \/ \E s \in Sources, m \in OpenMinutes :
            HFree(record_source_error(s, m) /\ UNCHANGED now)
    \/ \E s \in Sources : HFree(is_circuit_open(s) /\ UNCHANGED now)

SpecHealth == InitTB /\ [][NextHealth]_vars

---------------------------------------------------------------------------
(* The ingestion workers, run one after another *)

\* A step of an ingestion worker.
IFree(A) == A /\ UNCHANGED <<alertvars, tbvars, svars, dvars, rvars>>

NextIngest ==
    \/ IFree(ITick)
    \/ \E j \in Jobs, enabled \in BOOLEAN, n \in 0..MaxUnits :
            IFree(StartRun(j, enabled, n))
    \/ IFree(CheckCircuit)
    \/ \E ok \in BOOLEAN : IFree(MakeClient(ok))
    \/ \E n \in 0..MaxUnits : IFree(Limiter(n))
    \/ IFree(LoopAcquire)
    \/ \E ok \in BOOLEAN : IFree(Fetch(ok))
    \/ IFree(LoopEnd)
    \/ \E ok \in BOOLEAN : IFree(Write(ok))
    \/ IFree(RecordOk)
    \/ IFree(RecordError)
    \/ IFree(Return)

SpecIngest == InitTB /\ [][NextIngest]_vars

---------------------------------------------------------------------------
(* The scoring passes, side by side *)

\* A step of a scoring pass or of the signal store.
SFree(A) == A /\ UNCHANGED <<alertvars, tbvars, hvars, ivars, dvars, rvars>>

NextScore ==
    \/ SFree(STick(MaxScoreClock))
    \/ \E e \in Entities, z \in TikTokZ :
            \/ SFree(SignalArrives(e, "reddit", z))
            \/ SFree(SignalArrives(e, "tt_cc", z))
    \/ \E e \in Entities, res \in AdvResults, ok \in BOOLEAN :
            SFree(score_entity(e, res, ok))
    \/ \E k \in Kinds : SFree(PassStart(k))
    \/ \E ok \in BOOLEAN : SFree(MvpEntity(ok))
    \/ \E ok \in BOOLEAN : SFree(FoldEntity(ok))
    \/ \E res \in AdvResults, ok \in BOOLEAN : SFree(BackfillEntity(res, ok))
    \/ \E k \in Kinds : SFree(PassEnd(k))

SpecScore == InitTB /\ [][NextScore]_vars

\* No pass of score_all_mvp has begun or written a row.
Seeding ==
    /\ passes["mvp"].pc = "idle"
    /\ ~\E r \in score_rows : r.reasons

\* No pass is running.
NoPassRuns == \A k \in Kinds : passes[k].pc = "idle"

\* Signals arrive and the advanced scoring runs; from the first pass of
\* score_all_mvp on, nothing but score_all_mvp and the TikTok fold run, one
\* after the other, any number of times.
NextRescore ==
    \/ SFree(STick(MaxRescoreClock))
    \/ \E e \in Entities, z \in TikTokZ :
            \/ Seeding /\ SFree(SignalArrives(e, "reddit", z))
            \/ Seeding /\ SFree(SignalArrives(e, "tt_cc", z))
    \/ \E e \in Entities, res \in AdvResults :
            Seeding /\ SFree(score_entity(e, res, TRUE))
    \/ \E k \in {"mvp", "tiktok"} : NoPassRuns /\ SFree(PassStart(k))
    \/ SFree(MvpEntity(TRUE))
    \/ SFree(FoldEntity(TRUE))
    \/ \E k \in {"mvp", "tiktok"} : SFree(PassEnd(k))

SpecRescore == InitTB /\ [][NextRescore]_vars

---------------------------------------------------------------------------
(* score_all_mvp over entities whose signals come from every platform *)

NextSpread ==
    \/ SFree(STick(MaxScoreClock))
    \/ \E e \in Entities, z \in TikTokZ :
            \/ SFree(SignalArrives(e, "reddit", z))
            \/ SFree(SignalArrives(e, "trends", z))
            \/ SFree(SignalArrives(e, "tt_cc", z))
    \/ \E e \in Entities, res \in SpreadResults :
            SFree(score_entity(e, res, TRUE))
    \/ SFree(PassStart("mvp"))
    \/ \E ok \in BOOLEAN : SFree(MvpEntity(ok))
    \/ SFree(PassEnd("mvp"))

SpecSpread == InitTB /\ [][NextSpread]_vars

---------------------------------------------------------------------------
(* Callers of db.py, two connections side by side *)

DFree(A) == A /\ UNCHANGED <<alertvars, tbvars, hvars, ivars, svars, rvars>>

NextDb ==
    \/ \E c \in Conns : DFree(conn_ctx(c))
    \/ \E c \in Conns, e \in Tracked, s \in SignalSources, t \in SignalTs,
          m \in SignalMetrics, v \in SignalValues :
            DFree(insert_signal(c, e, s, t, m, v))
    \/ \E c \in Conns, n \in EntityNames, ty \in EntityTypes,
          al \in SUBSET Aliases, w \in WikiIds, ca \in Categories :
            DFree(upsert_entity(c, n, ty, al, w, ca))
    \/ \E c \in Conns : DFree(DbCommit(c))
    \/ \E c \in Conns : DFree(DbRollback(c))

SpecDb == InitTB /\ [][NextDb]_vars

---------------------------------------------------------------------------
(* Flows calling rate_limiter, one call after another *)

RFree(A) == A /\ UNCHANGED <<alertvars, tbvars, hvars, ivars, svars, dvars>>

NextLimiter ==
    \/ RFree(RTick)
    \/ \E s \in LimitedSources : RFree(RateLimiterCall(s))

SpecLimiter == InitTB /\ [][NextLimiter]_vars

---------------------------------------------------------------------------
(* Properties *)

Range(s) == {s[i] : i \in 1..Len(s)}

\* The step is one iteration of the evaluation loop of run p.
EvalStep(p) ==
    /\ pc[p] = "evaluate"
    /\ pc'[p] \in {"evaluate", "filter"}
    /\ rows'[p] = Tail(rows[p])

\* The row being evaluated passes the gate: velocity_z >= 2.5 and
\* spread >= 2/3, a missing value counting as 0.
RowPasses(r) ==
    /\ (IF r.velocity_z = NULL THEN 0 ELSE r.velocity_z) >= 25
    /\ (IF r.spread = NULL THEN 0 ELSE r.spread) >= 2

\* C1: a gate-passing evaluation stores the poll's timestamp as
\* last_gate_pass_ts and sets consecutive_passes to the previous value + 1
\* when a last_gate_pass_ts is stored and the poll's timestamp is strictly
\* later, and to 1 in every other case (no row, NULL, equal or older
\* timestamp); the count never rises by more than 1.
C1_PassUpsert ==
    [][\A p \in Procs :
        (EvalStep(p) /\ RowPasses(Head(rows[p]))) =>
            LET r == Head(rows[p])
                old == View(p, r.eid)
                new == tx_state'[p][r.eid]
            IN /\ new.last_gate_pass_ts = r.ts
               /\ new.consecutive_passes =
                    IF old.last_gate_pass_ts # NULL
                       /\ r.ts > old.last_gate_pass_ts
                    THEN old.consecutive_passes + 1
                    ELSE 1
               /\ new.consecutive_passes
                    <= (IF old = NoRow THEN 0 ELSE old.consecutive_passes) + 1
      ]_vars

\* Three passing polls with increasing timestamps 0, 1, 2 were evaluated:
\* the count is 3.
C1_Witness ==
    \E e \in Entities :
        /\ trend_state[e].consecutive_passes = 3
        /\ trend_state[e].last_gate_pass_ts = Instant(2)

\* C2: a gate-failing evaluation leaves consecutive_passes at 0 whatever it
\* was and whether or not a row existed, and consecutive_passes of a row is
\* never negative.
C2_FailResets ==
    /\ [](\A e \in Entities :
            /\ trend_state[e] # NoRow => trend_state[e].consecutive_passes >= 0
            /\ \A p \in Procs :
                tx_state[p][e] # NoRow => tx_state[p][e].consecutive_passes >= 0)
    /\ [][\A p \in Procs :
            (EvalStep(p) /\ ~RowPasses(Head(rows[p]))) =>
                tx_state'[p][Head(rows[p]).eid].consecutive_passes = 0
         ]_vars

\* A run has reset, to 0, a count that an earlier gate pass had raised.
C2_Witness ==
    \E p \in Procs, e \in Entities :
        /\ trend_state[e].consecutive_passes >= 1
        /\ tx_state[p][e] # NoRow
        /\ tx_state[p][e].consecutive_passes = 0

\* C3: the evaluation of a row adds the entity to the candidates exactly
\* when the row passes the gate and consecutive_passes after the update of
\* this evaluation is at least PERSIST_POLLS.
C3_Candidate ==
    [][\A p \in Procs :
        EvalStep(p) =>
            LET r == Head(rows[p])
                consec == tx_state'[p][r.eid].consecutive_passes
            IN IF RowPasses(r) /\ consec >= 2
               THEN /\ Len(to_alert'[p]) = Len(to_alert[p]) + 1
                    /\ to_alert'[p][Len(to_alert'[p])].eid = r.eid
                    /\ SubSeq(to_alert'[p], 1, Len(to_alert[p])) = to_alert[p]
               ELSE to_alert'[p] = to_alert[p]
      ]_vars

\* A row with velocity_z exactly 2.5 and spread exactly 2/3 made its entity
\* a candidate on its second pass.
C3_Witness ==
    \E p \in Procs :
        /\ to_alert[p] # <<>>
        /\ tx_state[p][to_alert[p][1].eid].consecutive_passes = 2
        /\ scores[to_alert[p][1].eid].velocity_z = 25
        /\ scores[to_alert[p][1].eid].spread = 2

\* The number of scripted polls whose alert pass has run to its end.
PollsDone == (cycle + 1) \div 3

\* C4: scripted end to end, velocity_z 1.0, 2.0, 2.6 on three successive
\* polls with spread >= 2/3, no prior alert and no trade mention, an alert
\* pass after each poll: no alert exists after polls 1, 2 and 3, the third
\* poll being the first gate pass and leaving consecutive_passes at 1;
\* after a fourth poll that passes the gate with a later timestamp exactly
\* one alert exists, with pre_trade = true and lead_time_minutes = null.
C4_E2E ==
    /\ PollsDone <= 3 => alerts = <<>>
    /\ (PollsDone = 3 /\ pc["A"] = "idle") =>
            trend_state["e1"].consecutive_passes = 1
    /\ PollsDone = 4 =>
            /\ Len(alerts) = 1
            /\ alerts[1].entity_id = "e1"
            /\ alerts[1].pre_trade = TRUE
            /\ alerts[1].lead_time_minutes = NULL

\* The statement as first written: zero alerts after polls 1 and 2 and
\* exactly one alert after poll 3, with pre_trade = true and
\* lead_time_minutes = null.
C4_Original ==
    /\ PollsDone <= 2 => alerts = <<>>
    /\ PollsDone = 3 =>
            /\ Len(alerts) = 1
            /\ alerts[1].pre_trade = TRUE
            /\ alerts[1].lead_time_minutes = NULL

\* The fourth alert pass has ended and its alert is committed.
C4_Witness ==
    /\ PollsDone = 4
    /\ Len(alerts) = 1
    /\ alerts[1].pre_trade = TRUE
    /\ trend_state["e1"].consecutive_passes = 2

\* C5: an alert row is created once per gate transition, that is on the
\* evaluation that brings consecutive_passes to PERSIST_POLLS, never while
\* the entity merely stays eligible, and a committed alert row is never
\* changed or removed.
C5_OncePerTransition ==
    [][/\ Len(alerts') >= Len(alerts)
       /\ \A i \in 1..Len(alerts) : alerts'[i] = alerts[i]
       /\ \A i \in (Len(alerts) + 1)..Len(alerts') :
            trend_state[alerts'[i].entity_id].consecutive_passes
                = PERSIST_POLLS
      ]_vars

\* The step is _apply_debounce_and_suppression of run p.
FilterStep(p) == pc[p] = "filter" /\ pc'[p] = "commit_find"

\* The entity of candidate c was alerted less than 6 hours ago and the
\* candidate's heat is below 1.3 times the heat of that alert.
DebounceApplies(p, c) ==
    LET st == View(p, c.eid)
    IN /\ st.last_alert_ts # NULL
       /\ now - st.last_alert_ts < 6
       /\ c.heat * 10 < st.last_alert_heat * 13

\* The earliest trade mention of the entity of candidate c is more than 24
\* hours old and the candidate's heat is below the entity's peak.
AgingApplies(p, c) ==
    LET st == View(p, c.eid)
    IN /\ trade_min[c.eid] # NULL
       /\ now - trade_min[c.eid] > 24
       /\ st.prior_peak_heat # NULL
       /\ c.heat < st.prior_peak_heat

\* C6: a candidate whose entity was alerted less than DEBOUNCE_HOURS ago is
\* dropped when its heat is below last_alert_heat x REBOOST_FACTOR; when its
\* heat is at or above that product, or the alert is DEBOUNCE_HOURS or more
\* old, debounce does not drop it: it stays unless trade-mention aging
\* applies.
C6_Debounce ==
    [][\A p \in Procs :
        FilterStep(p) =>
            \A c \in Range(to_alert[p]) :
                /\ DebounceApplies(p, c) => c \notin Range(filtered'[p])
                /\ (~DebounceApplies(p, c) /\ ~AgingApplies(p, c))
                        => c \in Range(filtered'[p])
      ]_vars

\* Alerted at heat 10, a candidate of heat 11 one hour later was dropped.
C6_Witness ==
    \E p \in Procs :
        /\ pc[p] = "commit_find"
        /\ filtered[p] = <<>>
        /\ \E c \in Range(to_alert[p]) :
            /\ c.heat = 11
            /\ View(p, c.eid).last_alert_heat = 10
            /\ now - View(p, c.eid).last_alert_ts = 1
            /\ ~AgingApplies(p, c)

\* C7: a candidate whose entity's earliest trade mention is more than
\* TRADE_SUPPRESS_AFTER_HOURS old is dropped when its heat is below
\* prior_peak_heat, whatever the debounce state; with heat at or above the
\* peak, or a mention 24 hours old or less, this rule does not drop it: it
\* stays unless debounce applies.
C7_TradeAging ==
    [][\A p \in Procs :
        FilterStep(p) =>
            \A c \in Range(to_alert[p]) :
                /\ AgingApplies(p, c) => c \notin Range(filtered'[p])
                /\ (~AgingApplies(p, c) /\ ~DebounceApplies(p, c))
                        => c \in Range(filtered'[p])
      ]_vars

\* A candidate that debounce lets through was dropped because the trade
\* mention is more than 24 hours old and its heat is below the peak.
C7_Witness ==
    \E p \in Procs :
        /\ pc[p] = "commit_find"
        /\ filtered[p] = <<>>
        /\ \E c \in Range(to_alert[p]) :
            /\ AgingApplies(p, c)
            /\ ~DebounceApplies(p, c)
            /\ now - View(p, c.eid).last_alert_ts >= 6

\* C8: whenever a run of post_alerts ends, by returning, by an exception or
\* by termination, every push it sent has its alert row in the committed
\* alerts table.
C8_PushHasRow ==
    [][\A p \in Procs :
        (pc[p] # "idle" /\ pc'[p] = "idle") =>
            \A a \in pushed[p] : a \in Range(alerts')
      ]_vars

\* C9: when the delivery of an alert fails after its row was written, the
\* alert is not counted as sent and its row stays: a delivery that is
\* answered with an error leaves sent as it was, and a run that ends in the
\* middle of a delivery (client.post raised, or the run was stopped there)
\* leaves the row of that alert in the committed alerts table.
C9_DeliveryFailure ==
    [][\A p \in Procs :
        /\ (pc[p] = "send" /\ failed'[p] # failed[p]) => sent'[p] = sent[p]
        /\ (pc[p] = "send" /\ pc'[p] = "idle") =>
                Current(p) \in Range(alerts')
      ]_vars

\* C10: the committed trend_state changes as if the upserts ran one after
\* the other in commit order: a committed gate pass is the upsert applied
\* to the row committed just before it, so two evaluations of the same poll
\* leave consecutive_passes at most 1 above its value before both.
C10_SerialUpserts ==
    [][\A e \in Entities :
        LET old == trend_state[e]
            new == trend_state'[e]
        IN (/\ new.consecutive_passes >= 1
            /\ <<new.last_gate_pass_ts, new.consecutive_passes>>
                 # <<old.last_gate_pass_ts, old.consecutive_passes>>)
           => /\ new.consecutive_passes =
                    IF old.last_gate_pass_ts # NULL
                       /\ new.last_gate_pass_ts > old.last_gate_pass_ts
                    THEN old.consecutive_passes + 1
                    ELSE 1
              /\ new.consecutive_passes
                    <= (IF old = NoRow THEN 0 ELSE old.consecutive_passes) + 1
      ]_vars

\* Two runs evaluate the same poll of an entity at once: one has upserted
\* and not yet committed, the other is about to upsert the same timestamp.
C10_Witness ==
    \E p \in Procs, q \in Procs, e \in Entities :
        /\ p # q
        /\ tx_state[p][e] # NoRow
        /\ tx_state[p][e].consecutive_passes >= 2
        /\ pc[q] = "evaluate"
        /\ Head(rows[q]).eid = e
        /\ Head(rows[q]).ts = tx_state[p][e].last_gate_pass_ts

\* The answer and the stored fields new that acquire(n) at time t must give
\* for a bucket holding tokens0 since ts0: refill to
\* min(burst, tokens0 + elapsed/interval * rate), grant and subtract n when
\* that is at least n, else deny and store the refilled tokens; ts = t.
AcquireRule(tokens0, ts0, t, n, new, ok) ==
    LET elapsed == IF t > ts0 THEN t - ts0 ELSE 0
        full == tokens0 + elapsed * rate
        tokens == IF full > burst * interval THEN burst * interval ELSE full
    IN /\ new.ts = t
       /\ tokens >= n * interval => (ok /\ new.tokens = tokens - n * interval)
       /\ tokens < n * interval => (~ok /\ new.tokens = tokens)

\* The step is the script of worker w answering.
StoreStep(w) == tb_pc[w] = "eval" /\ tb_ret'[w].from = "store"

\* The step is the in-memory path of worker w answering.
MemoryStep(w) == tb_pc[w] # "idle" /\ tb_ret'[w].from = "memory"

\* C11: acquire(n) refills to min(burst, stored + elapsed/interval x rate),
\* grants and stores tokens - n when tokens >= n, else denies and stores the
\* refilled tokens, sets the refill timestamp to now either way, in the
\* shared store and in the in-process bucket alike; stored tokens stay
\* within [0, burst].
C11_Acquire ==
    /\ [](/\ tb_key # NoKey =>
                (tb_key.tokens >= 0 /\ tb_key.tokens <= burst * interval)
          /\ \A w \in Workers :
                tb_mem[w].tokens >= 0 /\ tb_mem[w].tokens <= burst * interval)
    /\ [][\A w \in Workers :
            /\ StoreStep(w) =>
                LET k == Live(tb_key, now)
                IN AcquireRule(IF k = NoKey THEN burst * interval ELSE k.tokens,
                               IF k = NoKey THEN tb_now[w] ELSE k.ts,
                               tb_now[w], tb_need[w], tb_key', tb_ret'[w].ok)
            /\ MemoryStep(w) =>
                AcquireRule(tb_mem[w].tokens, tb_mem[w].ts, now, tb_need[w],
                            tb_mem'[w], tb_ret'[w].ok)
         ]_vars

\* The store denied a request for 2 tokens and kept the partly refilled
\* bucket, stamped with the time of the request.
C11_Witness ==
    \E w \in Workers :
        /\ tb_ret[w] = [ok |-> FALSE, from |-> "store"]
        /\ tb_key.tokens > 0
        /\ tb_key.tokens < 2 * interval
        /\ tb_key.ts >= 1

\* C12: whatever the interleaving of the workers' acquire calls, the tokens
\* the shared store has granted since time 0 never exceed the tokens it
\* held at time 0 (a full bucket) plus the refill accrued since.
C12_NoDoubleGrant ==
    tb_granted * interval <= burst * interval + now * rate

HealthCall(op, s) ==
    /\ h_last'.op = op
    /\ h_last'.source = s
    /\ (h_last' # h_last \/ health' # health)

\* The open window of a row: none for a missing row or a NULL column.
Window(row) == IF row = NoHealth THEN NULL ELSE row.circuit_open_until

\* What record_error must leave in source s's row, for the argument it was
\* called with: the count one higher (1 for a new source) and the window
\* ending at the later of its old end and now + open_minutes.
ErrorRecorded(s) ==
    LET old == health[s]
        new == health'[s]
        until == now + h_last'.arg
    IN /\ new.consecutive_errors =
            (IF old = NoHealth THEN 1 ELSE old.consecutive_errors + 1)
       /\ new.circuit_open_until =
            (IF Window(old) # NULL /\ Window(old) > until
             THEN Window(old) ELSE until)

\* C15: a record_error call whose statement is executed raises
\* consecutive_errors by exactly 1 (to 1 for a new source) and sets
\* circuit_open_until to the later of the existing value and now +
\* open_minutes; a call whose statement fails returns silently and leaves
\* the row as it was; in either case circuit_open_until never moves
\* earlier.
C15_RecordError ==
    [][\A s \in Sources :
        HealthCall("error", s) =>
            /\ h_last'.done => ErrorRecorded(s)
            /\ ~h_last'.done => health'[s] = health[s]
            /\ Window(health[s]) # NULL =>
                    Window(health'[s]) >= Window(health[s])
      ]_vars

\* The statement as first written: every record_error call raises
\* consecutive_errors by exactly 1 and sets the window.
C15_Original ==
    [][\A s \in Sources : HealthCall("error", s) => ErrorRecorded(s)]_vars

\* A second error with a shorter open_minutes was recorded and the longer
\* window of the first one was kept.
C15_Witness ==
    \E s \in Sources :
        /\ h_last = Call("error", s, 5, TRUE, FALSE)
        /\ health[s].consecutive_errors = 2
        /\ health[s].circuit_open_until > health[s].last_error + 5

\* C16: an is_circuit_open call whose query is executed answers true
\* exactly when the source has a row with an open window and now <
\* circuit_open_until, and one whose query fails answers false; after a
\* record_ok call whose statement is executed consecutive_errors is 0 and
\* circuit_open_until is cleared, so that is_circuit_open answers false
\* until the next record_error; a record_ok call whose statement fails
\* leaves the row as it was.
C16_IsOpen ==
    [][\A s \in Sources :
        /\ HealthCall("is_open", s) =>
            /\ health' = health
            /\ h_last'.done =>
                    (h_last'.ret <=>
                        (Window(health[s]) # NULL /\ now < Window(health[s])))
            /\ ~h_last'.done => ~h_last'.ret
            /\ Window(health[s]) = NULL => ~h_last'.ret
        /\ HealthCall("ok", s) =>
            /\ h_last'.done =>
                    /\ health'[s].consecutive_errors = 0
                    /\ health'[s].circuit_open_until = NULL
                    /\ health'[s].last_ok = now
            /\ ~h_last'.done => health'[s] = health[s]
      ]_vars

\* The statement as first written: is_circuit_open is true exactly while
\* now < circuit_open_until, and after record_ok the count is 0 and the
\* window cleared.
C16_Original ==
    [][\A s \in Sources :
        /\ HealthCall("is_open", s) =>
                (h_last'.ret <=>
                    (Window(health[s]) # NULL /\ now < Window(health[s])))
        /\ HealthCall("ok", s) =>
                /\ health'[s].consecutive_errors = 0
                /\ health'[s].circuit_open_until = NULL
      ]_vars

\* The circuit of a source was asked about at the very minute its window
\* ends, and the answer was false.
C16_Witness ==
    \E s \in Sources :
        /\ h_last = Call("is_open", s, NULL, TRUE, FALSE)
        /\ health[s].circuit_open_until = now
        /\ health[s].consecutive_errors >= 1

---------------------------------------------------------------------------
(* Ingestion workers *)

\* The step ends a worker run.
RunEnds == run.pc = "return" /\ run'.job = "none"

\* The run in progress has been denied a token and nothing in it failed.
DeniedOnly == run.job # "none" /\ run.denied > 0 /\ run.errors = 0

\* C14: denial of a rate-limit token is not an error: the denied caller
\* skips that unit of work and continues with the next one, and a run in
\* which nothing but denials happened never lets an exception escape, never
\* calls record_source_error and never opens the circuit of a source.
C14_DenialNotError ==
    [][/\ (run.pc = "loop" /\ run'.denied > run.denied) =>
            /\ run'.pc = "loop"
            /\ run'.left = run.left - 1
            /\ run'.errors = run.errors
            /\ health' = health
       /\ DeniedOnly =>
            /\ ~run'.raising
            /\ \A s \in HealthKeys :
                /\ ~HealthCall("error", s)
                /\ CircuitOpen(health'[s], now) => CircuitOpen(health[s], now)
      ]_vars

\* The worker run made an attempt: it fetched, or something in it failed.
Attempted == run.got + run.errors > 0

\* C17: every worker run checks is_circuit_open(source) before any fetch,
\* fetches nothing and writes nothing while the circuit of its source is
\* open, and a run that made an attempt has, when it ends, called exactly
\* one of record_source_ok and record_source_error, for the key it checked.
C17_HealthProtocol ==
    [][/\ (run.pc \in {"fetch", "write"} /\ run'.pc # run.pc) =>
            /\ run.checked = SourceKey(run.job)
            /\ ~CircuitOpen(health[run.checked], now)
       /\ (RunEnds /\ Attempted) =>
            /\ Len(run.calls) = 1
            /\ run.calls[1][2] = run.checked
      ]_vars

---------------------------------------------------------------------------
(* Scoring passes *)

\* The step ends the pass of kind k.
PassEnds(k) == passes[k].pc = "run" /\ passes'[k].pc = "idle"

\* C18: a failure on one entity does not abort a batch pass for the
\* others: when a pass ends, at most the failing entity is left unvisited,
\* and the row of every entity the pass has scored is in the committed
\* table.
C18_Isolation ==
    [][\A k \in Kinds :
        PassEnds(k) =>
            /\ Cardinality(passes[k].todo) <= 1
            /\ passes[k].tx \subseteq score_rows'
      ]_vars

\* C19: score rows are append-only: no step of a scoring operation changes
\* or removes a committed row, and every row it adds has a ts strictly
\* later than every row the entity already has.
C19_AppendOnly ==
    [][/\ score_rows \subseteq score_rows'
       /\ \A r \in score_rows' \ score_rows :
            \A q \in RowsOf(score_rows, r.entity_id) : q.ts < r.ts
      ]_vars

\* C20: re-running the scoring pass (score_all_mvp, then the TikTok fold)
\* any number of times before new signals arrive gives every entity the
\* heat of the first run: all rows that score_all_mvp has written for an
\* entity carry the same heat.
C20_SameHeat ==
    \A r1 \in score_rows, r2 \in score_rows :
        (r1.reasons /\ r2.reasons /\ r1.entity_id = r2.entity_id)
            => r1.heat = r2.heat

---------------------------------------------------------------------------
(* Alert passes, again *)

\* The step of run p evaluates again a poll that an earlier pass has
\* evaluated, no newer row of the entity having been written: a passing row
\* whose timestamp is the stored last_gate_pass_ts, or a failing row of an
\* entity whose count is 0.
ReEvalStep(p) ==
    /\ EvalStep(p)
    /\ LET r == Head(rows[p])
           old == View(p, r.eid)
       IN IF RowPasses(r)
          THEN old.last_gate_pass_ts = r.ts
          ELSE old # NoRow /\ old.consecutive_passes = 0

---------------------------------------------------------------------------
(* Writers of db.py *)

\* The rows of R that have the key of row.
SameKey(R, row) == {r \in R : SignalKey(r) = SignalKey(row)}

\* The step is a statement of insert_signal on connection c.
InsertStep(c) ==
    /\ db_ops' = db_ops + 1
    /\ db_last'[c].op = "insert_signal"

\* C22: a signal written through insert_signal when a row of the same
\* (entity_id, source, metric, ts) is stored is a no-op, the stored row and
\* its value staying as they are and the call returning; the table never
\* holds two rows of one key.
C22_InsertOnce ==
    /\ [](\A c \in Conns : \A r \in SignalView(c) :
            SameKey(SignalView(c), r) = {r})
    /\ [][\A c \in Conns :
            InsertStep(c) =>
                LET row == db_last'[c].row
                IN /\ Cardinality(SameKey(signal_rows' \cup conn'[c].signals,
                                          row)) = 1
                   /\ SameKey(SignalView(c), row) # {} =>
                        /\ signal_rows' = signal_rows
                        /\ conn'[c].signals = conn[c].signals
         ]_vars

\* The same key was written a second time with another value: a statement
\* has just returned and the stored row holds the first value.
C22_Witness ==
    \E c \in Conns :
        /\ db_last[c].op = "insert_signal"
        /\ \E r \in signal_rows :
            /\ SignalKey(r) = SignalKey(db_last[c].row)
            /\ r.value # db_last[c].row.value
        /\ conn[c].signals = {}

\* C23: upserting an entity whose name is stored sets its aliases to the
\* union of the stored and the supplied aliases: no alias of a committed
\* entities row is ever lost, and a committed row is never deleted.
C23_AliasesUnion ==
    [][/\ \A n \in EntityNames :
            entity_rows[n] # NoEntity =>
                /\ entity_rows'[n] # NoEntity
                /\ entity_rows[n].aliases \subseteq entity_rows'[n].aliases
       /\ \A c \in Conns, n \in EntityNames :
            (/\ db_last'[c].op = "upsert_entity"
             /\ db_ops' = db_ops + 1
             /\ conn'[c].entities[n] # conn[c].entities[n]
             /\ EntityView(c, n) # NoEntity)
            => EntityView(c, n).aliases \subseteq conn'[c].entities[n].aliases
      ]_vars

\* The step is one iteration of post_alerts of run p up to the Slack call.
PersistStep(p) == pc[p] = "persist" /\ pc'[p] = "send"

\* The step commits the transaction of post_alerts of run p.
CommitPostStep(p) == pc[p] = "persist" /\ batch[p] = <<>> /\ pc'[p] = "idle"

\* The last-alert columns of a trend_state row.
AlertCols(st) == <<st.last_alert_ts, st.last_alert_heat, st.prior_peak_heat>>

\* C24: prior_peak_heat of an entity never decreases; the committed value
\* changes only when a dispatch of an alert for that entity is committed,
\* the dispatch setting it to max(prior_peak_heat, heat); a gate evaluation,
\* passing or failing, leaves prior_peak_heat, last_alert_ts and
\* last_alert_heat as they were.
C24_PriorPeak ==
    [][/\ \A e \in Entities :
            /\ trend_state'[e].prior_peak_heat >= trend_state[e].prior_peak_heat
            /\ trend_state'[e].prior_peak_heat # trend_state[e].prior_peak_heat
                => \E p \in Procs :
                    /\ CommitPostStep(p)
                    /\ \E a \in Range(tx_alerts[p]) :
                        a.entity_id = e /\ a \in Range(alerts')
       /\ \A p \in Procs :
            /\ EvalStep(p) =>
                AlertCols(tx_state'[p][Head(rows[p]).eid])
                    = AlertCols(View(p, Head(rows[p]).eid))
            /\ PersistStep(p) =>
                LET c == Head(batch[p])
                    old == View(p, c.eid).prior_peak_heat
                    new == tx_state'[p][c.eid].prior_peak_heat
                IN new = (IF old # NULL /\ old >= c.heat THEN old ELSE c.heat)
      ]_vars

\* An alert of heat 10 was dispatched for an entity whose peak was 14: the
\* peak is still 14.
C24_Witness ==
    \E e \in Entities :
        /\ trend_state[e].prior_peak_heat = 14
        /\ trend_state[e].last_alert_heat = 10

---------------------------------------------------------------------------
(* Platform spread *)

\* The number of platform categories among reddit, trends and tiktok that
\* have a signal of the entity in the store; every signal of the model is
\* less than 24 hours old.
ActiveCategories(sg) ==
    (IF sg.reddit THEN 1 ELSE 0) + (IF sg.trends THEN 1 ELSE 0)
        + (IF sg.tiktok # NULL THEN 1 ELSE 0)

\* C25: the spread that score_all_mvp stores with a row is, in thirds, the
\* number of platform categories among reddit, trends and tiktok that have
\* a signal of the entity within the last 24 hours; a category without
\* such a signal does not count.
C25_Spread ==
    [][\A r \in passes'["mvp"].tx \ passes["mvp"].tx :
            r.spread = ActiveCategories(signals[r.entity_id])
      ]_vars

---------------------------------------------------------------------------
(* Two runs and the debounce *)

\* C26: however two runs of the alert flow and the scoring passes
\* interleave, of two alert rows of one entity created less than
\* DEBOUNCE_HOURS apart the later one has a heat of at least
\* REBOOST_FACTOR times the heat of the earlier one.
C26_DebounceAcrossRuns ==
    \A i \in 1..Len(alerts), j \in 1..Len(alerts) :
        (/\ i < j
         /\ alerts[i].entity_id = alerts[j].entity_id
         /\ alerts[j].alert_ts - alerts[i].alert_ts < 6)
        => alerts[j].heat * 10 >= alerts[i].heat * 13

---------------------------------------------------------------------------
(* Candidates cut by the batch limit *)

---------------------------------------------------------------------------
(* Entities without a recent score *)

\* Entity e has a scores row stamped within the last 2 hours.
HasRecentRow(e) == scores[e].ts # NULL /\ now - scores[e].ts <= 2

\* The gate columns of a trend_state row.
GateCols(st) == <<st.last_gate_pass_ts, st.consecutive_passes>>

\* C28: no step of an alert pass changes consecutive_passes or
\* last_gate_pass_ts of an entity that has no score row within the last 2
\* hours, and the run holds no pending write of them; a passing poll that
\* comes more than 2 hours after the stored last_gate_pass_ts raises the
\* count by 1 as a poll without a gap does.
C28_Frame ==
    /\ [](\A p \in Procs, e \in Entities :
            (pc[p] # "idle" /\ ~HasRecentRow(e)) =>
                \/ tx_state[p][e] = NoRow
                \/ GateCols(tx_state[p][e]) = GateCols(trend_state[e]))
    /\ [][/\ \A e \in Entities :
                ~HasRecentRow(e) =>
                    GateCols(trend_state'[e]) = GateCols(trend_state[e])
          /\ \A p \in Procs :
                LET r == Head(rows[p])
                    old == View(p, r.eid)
                IN (/\ EvalStep(p)
                    /\ RowPasses(r)
                    /\ old.last_gate_pass_ts # NULL
                    /\ r.ts - old.last_gate_pass_ts > 2)
                   => tx_state'[p][r.eid].consecutive_passes
                        = old.consecutive_passes + 1
         ]_vars

\* An alert pass is at its commit while the entity, whose count is 2, has
\* no row within the last 2 hours.
C28_Witness ==
    \E p \in Procs, e \in Entities :
        /\ pc[p] = "commit_find"
        /\ scores[e].ts # NULL
        /\ ~HasRecentRow(e)
        /\ trend_state[e].consecutive_passes = 2

---------------------------------------------------------------------------
(* No delivery channel *)

\* The step is the end of find_eligible_alerts of run p.
CommitFindStep(p) == pc[p] = "commit_find" /\ pc'[p] # "commit_find"

\* C29: with SLACK_WEBHOOK_URL empty a run of run_actionable_alerts
\* returns 0 right after find_eligible_alerts, no alert row exists and
\* last_alert_ts, last_alert_heat and prior_peak_heat of every entity stay
\* as they were, while consecutive_passes and last_gate_pass_ts of every
\* entity the run has evaluated are committed as the evaluation left them.
C29_NoChannel ==
    /\ [](~slack_url =>
            /\ alerts = <<>>
            /\ \A e \in Entities :
                AlertCols(trend_state[e]) = <<NULL, NULL, NULL>>
            /\ \A p \in Procs :
                pc[p] \notin {"persist", "send"} /\ sent[p] = 0)
    /\ [][\A p \in Procs :
            (~slack_url /\ CommitFindStep(p)) =>
                /\ pc'[p] = "idle"
                /\ sent'[p] = 0
                /\ alerts' = alerts
                /\ \A e \in Entities :
                    /\ AlertCols(trend_state'[e]) = AlertCols(trend_state[e])
                    /\ tx_state[p][e] # NoRow =>
                        GateCols(trend_state'[e]) = GateCols(tx_state[p][e])
         ]_vars

\* Without a webhook a run has ended after the poll that brought the
\* count to 2: the count is committed and no alert exists.
C29_Witness ==
    /\ ~slack_url
    /\ \A p \in Procs : pc[p] = "idle"
    /\ \E e \in Entities :
        /\ trend_state[e].consecutive_passes = 2
        /\ trend_state[e].last_alert_ts = NULL
    /\ alerts = <<>>

---------------------------------------------------------------------------
(* rate_limiter *)

\* C30: rate_limiter limits the calls of a source across invocations: a
\* call made when max_calls calls of the source have been admitted and no
\* time has passed since raises the 'Rate limit exceeded' ValueError.
C30_Limits ==
    [][\A s \in LimitedSources :
        (rl_calls[s] >= burst /\ <<rl_calls'[s], rl_ret'[s]>> # <<rl_calls[s], rl_ret[s]>>
            /\ now' = now)
            => rl_ret'[s] = "raised" /\ rl_calls'[s] = rl_calls[s]
      ]_vars

====
